---- MODULE Spec2Model ----
(***************************************************************************)
(* Verification model of the raytracer: the recursive tracer               *)
(* (Raytracer::trace), the hit record (HitRecord::set_face_normal), the    *)
(* bounding-volume hierarchy (build_bvh, intersect_bvh, intersect_obj,     *)
(* BoundingBox::intersect), the plane and box solvers, the parallel row    *)
(* loop of Raytracer::render, the texture cache (TextureManager), the      *)
(* progress bar (tqdm::ProgressBar), the sphere, cylinder and cone         *)
(* solvers, the shadow term (Raytracer::compute_shadow) and the bilinear   *)
(* filter of TextureManager::sample.                                       *)
(*                                                                         *)
(* Colours are kept as linear forms over the radiance terms a call of      *)
(* trace combines (local shading, mirror/glossy reflection, Fresnel        *)
(* reflection, refraction, emission).  Coefficients are fixed point with   *)
(* ONE = 1.0; material coefficients are percentages (100 = 1.0).           *)
(***************************************************************************)
EXTENDS Integers, Sequences, FiniteSets, TLC

VARIABLES
  cfg,        \* g_config: max_ray_depth, glossy_samples
  stk,        \* call stack of Raytracer::trace, innermost call last
  result,     \* <<frame>> once the primary call trace(ray, 0) has returned
  scene,      \* Scene: the cubes and the planes
  bvh,        \* the BVHNode objects, by node number (root 1, children 2n, 2n+1)
  bvh_root,   \* Raytracer::bvh_root: 0 (null) or the root's node number
  build_calls, \* pending calls of build_bvh, the next one to run last
  queries,    \* <<query>>: the last ray traversed and its two results
  options,    \* --threads, OMP_NUM_THREADS, hardware_concurrency, image size
  team,       \* number of threads of the parallel region (0 before it starts)
  next_row,   \* first row the loop schedule has not handed out yet
  workers,    \* per thread of the team: pc, chunk [lo, hi), row y, column x
  image,      \* output.pixels[y][x]: how often the pixel has been assigned
  row_runs,   \* per row: how often its loop body has been started, and by whom
  critical,   \* thread inside omp critical(progress_bar), 0 if none
  returned,   \* render has returned the image
  textures,   \* TextureManager::textures: filename -> what was stored
  tex_mutex,  \* TextureManager::mutex: the shared holders and the exclusive one
  tex_threads, \* per thread: the TextureManager call it is in and its position
  bar,        \* tqdm::ProgressBar: the fields update() and display() touch
  bar_threads, \* per thread: position in ProgressBar::update and its local curr
  solve_in,   \* <<input>>: primitive, ray and interval given to a solver
  solve_out,  \* <<hit record>>: what the solver reported for solve_in
  shadow,     \* the activation of Raytracer::compute_shadow, <<>> if none
  sampling    \* <<call>>: a TextureManager::sample call on a loaded image

traceVars == <<cfg, stk, result>>

geomVars == <<scene, bvh, bvh_root, build_calls, queries>>

renderVars ==
  <<options, team, next_row, workers, image, row_runs, critical, returned>>

texVars == <<textures, tex_mutex, tex_threads>>

barVars == <<bar, bar_threads>>

solveVars == <<solve_in, solve_out>>

shadowVars == <<shadow>>

sampleVars == <<sampling>>

restVars ==
  <<renderVars, texVars, barVars, solveVars, shadowVars, sampleVars>>

otherVars == <<geomVars, restVars>>

vars == <<traceVars, otherVars>>

----------------------------------------------------------------------------
(* Bounds of the model *)

MaxRayDepth == 3
MaxGlossy == 2

(* Program constants, as percentages *)

pure_glass_threshold == 99
GlossyMirrorThreshold == 94
MetalReflectivity == 50
MetalTransparency == 10
Pct == 100
ONE == Pct * Pct

----------------------------------------------------------------------------
(* Materials of the scene: reflectivity, transparency, glossiness, the     *)
(* diffuse colour (one channel) and emission strength.                     *)

Mat(r, t, g, d, e) ==
  [reflectivity |-> r, transparency |-> t, glossiness |-> g,
   diffuse_color |-> d, emission_strength |-> e]

Materials ==
  { Mat(0, 0, 0, 80, 0),        \* matte
    Mat(100, 0, 100, 50, 0),    \* coloured mirror
    Mat(100, 0, 100, 100, 0),   \* white mirror
    Mat(40, 0, 50, 80, 1),      \* glossy, emissive
    Mat(0, 100, 100, 100, 1),   \* pure glass, emissive
    Mat(50, 50, 94, 50, 0),     \* half mirror, half transparent
    Mat(20, 99, 100, 80, 0) }   \* glass at the pure-glass threshold

NoMat == Mat(0, 0, 0, 0, 0)

FresnelValues == {4, 100}

----------------------------------------------------------------------------
(* Colour arithmetic on linear forms *)

Terms == {"local", "refl", "fres", "refr", "emis"}

Black == [k \in Terms |-> 0]

Term(k) == [j \in Terms |-> IF j = k THEN ONE ELSE 0]

ColorAdd(a, b) == [k \in Terms |-> a[k] + b[k]]

ColorScale(a, p) == [k \in Terms |-> (a[k] * p) \div Pct]

----------------------------------------------------------------------------
(* Values of the variables of a part of the program that is not running *)

GeomIdle ==
  /\ scene = [cubes |-> <<>>, planes |-> <<>>]
  /\ bvh = <<>>
  /\ bvh_root = 0
  /\ build_calls = <<>>
  /\ queries = <<>>

TraceIdle ==
  /\ cfg = [max_ray_depth |-> 0, glossy_samples |-> 0]
  /\ stk = <<>>
  /\ result = <<>>

RenderIdle ==
  /\ options = [num_threads |-> 0, omp_num_threads |-> 0,
                hardware_concurrency |-> 1, width |-> 0, height |-> 0]
  /\ team = 0
  /\ next_row = 0
  /\ workers = <<>>
  /\ image = <<>>
  /\ row_runs = <<>>
  /\ critical = 0
  /\ returned = FALSE

TexIdle ==
  /\ textures = <<>>
  /\ tex_mutex = [shared |-> {}, exclusive |-> 0]
  /\ tex_threads = <<>>

BarIdle ==
  /\ bar = <<>>
  /\ bar_threads = <<>>

SolveIdle ==
  /\ solve_in = <<>>
  /\ solve_out = <<>>

ShadowIdle == shadow = <<>>

SampleIdle == sampling = <<>>

RestIdle ==
  RenderIdle /\ TexIdle /\ BarIdle /\ SolveIdle /\ ShadowIdle /\ SampleIdle

----------------------------------------------------------------------------
(* Raytracer::trace.  A frame is one activation of trace: pc is the call   *)
(* it is waiting for ("mirror", "glossy", "fresnel", "refract"), "entry"   *)
(* before its first statement and "done" once it has returned; kind is     *)
(* the return path taken.                                                  *)

Frame(d) ==
  [depth |-> d, pc |-> "entry", kind |-> "pending", mat |-> NoMat,
   tir |-> FALSE, fresnel |-> 0, samples |-> 0, i |-> 0, calls |-> 0,
   shaded |-> FALSE, color |-> Black, tint |-> Pct, emission_added |-> FALSE]

Waiting == {"mirror", "glossy", "fresnel", "refract"}

DepthExhaustedStrict(depth) == depth > cfg.max_ray_depth

\* depth >= g_config.max_ray_depth
DepthExhausted(depth) == depth >= cfg.max_ray_depth

ChildDepthSame(depth) == depth

\* depth + 1, the depth argument of every recursive call
ChildDepth(depth) == depth + 1

is_pure_glassStrict(m) == m.transparency > pure_glass_threshold

\* hit.material.transparency >= g_config.pure_glass_threshold
is_pure_glass(m) == m.transparency >= pure_glass_threshold

\* hit.material.reflectivity > 0.5 && hit.material.transparency < 0.1
is_metal(m) ==
  m.reflectivity > MetalReflectivity /\ m.transparency < MetalTransparency

GlossySampleCountAnyDepth(m, depth) ==
  IF cfg.glossy_samples > 1 /\ m.glossiness < GlossyMirrorThreshold
  THEN cfg.glossy_samples
  ELSE 1

\* int samples = 1; raised to glossy_samples for rough surfaces on the
\* first two bounces
GlossySampleCount(m, depth) ==
  IF cfg.glossy_samples > 1 /\ m.glossiness < GlossyMirrorThreshold
  THEN IF depth < 2 THEN cfg.glossy_samples ELSE 1
  ELSE 1

\* return color + emission_color * emission_strength
ReturnHit(f) ==
  [f EXCEPT !.pc = "done", !.kind = "hit",
            !.color = ColorAdd(f.color, Term("emis")),
            !.emission_added = TRUE]

\* if (transparency > 0): the Fresnel reflection ray is always traced
TransparencySection(f) ==
  IF f.mat.transparency > 0
  THEN [f EXCEPT !.pc = "fresnel", !.calls = @ + 1]
  ELSE ReturnHit(f)

ReflectionAdded(color, m) ==
  ColorAdd(color, ColorScale(Term("refl"), m.reflectivity))

\* color * (1 - reflectivity) + reflection_accum * reflectivity
ReflectionWeighted(color, m) ==
  ColorAdd(ColorScale(color, Pct - m.reflectivity),
           ColorScale(Term("refl"), m.reflectivity))

MetalTintNone(m) == Pct

\* reflection_tint: metals tint the reflection by the diffuse colour,
\* dielectrics leave it unchanged
MetalTint(m) == IF is_metal(m) THEN m.diffuse_color ELSE Pct

\* metal tint, then the reflection blend
ReflectBlend(f) ==
  TransparencySection(
    [f EXCEPT !.tint = MetalTint(f.mat),
              !.color = ReflectionWeighted(f.color, f.mat)])

\* if (reflectivity > 0): one mirror ray or the first glossy sample
ReflectionSection(f) ==
  IF f.mat.reflectivity > 0
  THEN LET samples == GlossySampleCount(f.mat, f.depth)
       IN IF samples = 1 \/ f.mat.glossiness > GlossyMirrorThreshold
          THEN [f EXCEPT !.pc = "mirror", !.samples = 1, !.calls = @ + 1]
          ELSE [f EXCEPT !.pc = "glossy", !.samples = samples, !.i = 0,
                         !.calls = @ + 1]
  ELSE TransparencySection(f)

\* the glossy loop: next sample, or average and blend
AfterGlossySample(f) ==
  IF f.i + 1 < f.samples
  THEN [f EXCEPT !.i = @ + 1, !.calls = @ + 1]
  ELSE ReflectBlend(f)

\* reflect_col * fresnel + refract_col * (1 - fresnel)
Combined(fresnel) ==
  ColorAdd(ColorScale(Term("fres"), fresnel),
           ColorScale(Term("refr"), Pct - fresnel))

TransparencyUnweighted(color, other, m) ==
  ColorAdd(ColorScale(color, Pct - m.transparency), other)

\* color * (1 - transparency) + other * transparency
TransparencyWeighted(color, other, m) ==
  ColorAdd(ColorScale(color, Pct - m.transparency),
           ColorScale(other, m.transparency))

\* after reflect_col = trace(ref_ray): refract if disc >= 0, else the
\* total-internal-reflection blend
AfterFresnel(f) ==
  IF ~f.tir
  THEN [f EXCEPT !.pc = "refract", !.calls = @ + 1]
  ELSE ReturnHit([f EXCEPT !.color =
                    TransparencyWeighted(f.color, Term("fres"), f.mat)])

\* after refract_col = trace(refract_ray)
AfterRefract(f) ==
  IF f.mat.transparency >= pure_glass_threshold
  THEN [f EXCEPT !.pc = "done", !.kind = "hit",
                 !.color = Combined(f.fresnel)]
  ELSE ReturnHit([f EXCEPT !.color =
                    TransparencyWeighted(f.color, Combined(f.fresnel), f.mat)])

\* the statements of trace after a hit, up to its first recursive call
OnHit(f, m, tir, fresnel) ==
  ReflectionSection(
    [f EXCEPT !.mat = m, !.tir = tir, !.fresnel = fresnel,
              !.shaded = ~is_pure_glass(m),
              !.color = IF is_pure_glass(m) THEN Black ELSE Term("local")])

\* the statements of trace after a recursive call has returned
Resume(f) ==
  CASE f.pc = "mirror" -> ReflectBlend(f)
    [] f.pc = "glossy" -> AfterGlossySample(f)
    [] f.pc = "fresnel" -> AfterFresnel(f)
    [] f.pc = "refract" -> AfterRefract(f)

StackCap == MaxRayDepth + 2

Top == stk[Len(stk)]

\* the caller's frame f, followed by the callee's when f made a call
WithCall(rest, f) ==
  IF f.pc \in Waiting
  THEN rest \o <<f, Frame(ChildDepth(f.depth))>>
  ELSE rest \o <<f>>

Rest == SubSeq(stk, 1, Len(stk) - 1)

\* render: pixel_color += trace(ray, 0)
TraceCall ==
  /\ stk = <<>>
  /\ result = <<>>
  /\ stk' = <<Frame(0)>>
  /\ UNCHANGED <<cfg, result>>
  /\ UNCHANGED otherVars

\* trace at the depth limit returns Color(0, 0, 0)
TraceCutoff ==
  /\ stk # <<>>
  /\ Top.pc = "entry"
  /\ DepthExhausted(Top.depth)
  /\ stk' = Rest \o <<[Top EXCEPT !.pc = "done", !.kind = "black"]>>
  /\ UNCHANGED <<cfg, result>>
  /\ UNCHANGED otherVars

\* intersect_bvh finds nothing: the background radiance is returned
TraceMiss ==
  /\ stk # <<>>
  /\ Top.pc = "entry"
  /\ ~DepthExhausted(Top.depth)
  /\ stk' = Rest \o <<[Top EXCEPT !.pc = "done", !.kind = "background"]>>
  /\ UNCHANGED <<cfg, result>>
  /\ UNCHANGED otherVars

\* intersect_bvh finds a hit: shade and run up to the first recursive call
TraceHit ==
  /\ stk # <<>>
  /\ Top.pc = "entry"
  /\ ~DepthExhausted(Top.depth)
  /\ \E m \in Materials :
       \E tir \in (IF m.transparency > 0 THEN BOOLEAN ELSE {FALSE}) :
         \E fresnel \in (IF m.transparency > 0 THEN FresnelValues ELSE {0}) :
           LET f == OnHit(Top, m, tir, fresnel)
           IN /\ (f.pc \in Waiting => Len(stk) < StackCap)
              /\ stk' = WithCall(Rest, f)
  /\ UNCHANGED <<cfg, result>>
  /\ UNCHANGED otherVars

\* a recursive call returns and its caller runs on to its next call or return
TraceReturn ==
  /\ Len(stk) >= 2
  /\ Top.pc = "done"
  /\ LET f == Resume(stk[Len(stk) - 1])
     IN stk' = WithCall(SubSeq(stk, 1, Len(stk) - 2), f)
  /\ UNCHANGED <<cfg, result>>
  /\ UNCHANGED otherVars

\* the primary call returns to render
TraceFinish ==
  /\ Len(stk) = 1
  /\ Top.pc = "done"
  /\ result' = <<Top>>
  /\ stk' = <<>>
  /\ UNCHANGED cfg
  /\ UNCHANGED otherVars

TraceInit ==
  /\ cfg \in [max_ray_depth : 0..MaxRayDepth, glossy_samples : 0..MaxGlossy]
  /\ stk = <<>>
  /\ result = <<>>
  /\ GeomIdle
  /\ RestIdle

TraceNext ==
  \/ TraceCall
  \/ TraceCutoff
  \/ TraceMiss
  \/ TraceHit
  \/ TraceReturn
  \/ TraceFinish

SpecTrace == TraceInit /\ [][TraceNext]_vars

----------------------------------------------------------------------------
(* Properties of Raytracer::trace *)

Frames ==
  {stk[i] : i \in 1..Len(stk)} \cup {result[i] : i \in 1..Len(result)}

Returned == {f \in Frames : f.pc = "done"}

ReturnedHits == {f \in Returned : f.kind = "hit"}

WeightSum(c) == c["local"] + c["refl"] + c["fres"] + c["refr"]

\* C2: a call of trace whose depth equals max_ray_depth returns black
\* (every weight zero), performs no shading and makes no recursive call:
\* its frame is never below another frame of the stack.
C2_DepthLimitBlack ==
  /\ \A f \in Frames :
       (f.depth = cfg.max_ray_depth /\ f.pc # "entry") =>
         /\ f.pc = "done"
         /\ f.kind = "black"
         /\ f.color = Black
         /\ f.calls = 0
         /\ ~f.shaded
  /\ \A i \in 1..Len(stk) :
       stk[i].depth = cfg.max_ray_depth => i = Len(stk)

C2_Witness ==
  /\ cfg.max_ray_depth > 0
  /\ \E f \in Returned : f.depth = cfg.max_ray_depth /\ f.kind = "black"

\* C3: along every call chain from trace(ray, 0) each call is one deeper
\* than its caller, a call that found a hit (shaded it or spawned rays) has
\* depth < max_ray_depth, the chain is no longer than max_ray_depth + 1, and
\* each call makes at most max(glossy_samples, 1) + 2 recursive calls, so
\* the call tree is finite.
C3_DepthBounded ==
  /\ \A i \in 1..Len(stk) :
       /\ stk[i].depth = i - 1
       /\ (stk[i].shaded \/ stk[i].kind = "hit" \/ stk[i].pc \in Waiting) =>
            stk[i].depth < cfg.max_ray_depth
       /\ stk[i].calls <=
            (IF cfg.glossy_samples > 1 THEN cfg.glossy_samples ELSE 1) + 2
  /\ Len(stk) <= cfg.max_ray_depth + 1

C3_Witness ==
  /\ Len(stk) = MaxRayDepth + 1
  /\ stk[Len(stk)].kind = "black"
  /\ \E i \in 1..Len(stk) : stk[i].pc = "refract"
  /\ \E i \in 1..Len(stk) : stk[i].pc = "glossy" /\ stk[i].i = 1

\* C4: for a hit on a material with transparency < 0.99 the weights of the
\* local, reflected, Fresnel-reflected and refracted terms sum to 1, on the
\* refracting path and on the total-internal-reflection path.
C4_WeightsSumToOne ==
  \A f \in ReturnedHits :
    f.mat.transparency < pure_glass_threshold => WeightSum(f.color) = ONE

C4_Witness ==
  \E f \in ReturnedHits :
    /\ f.mat.transparency > 0
    /\ f.mat.transparency < pure_glass_threshold
    /\ f.mat.reflectivity > 0
    /\ f.tir
    /\ f.depth > 0

\* C5: for a hit on a material with transparency >= 0.99 the local-shading
\* term has weight 0 in the returned colour and shade is not evaluated,
\* whether the ray refracts or is totally internally reflected.
C5_PureGlassNoLocal ==
  \A f \in ReturnedHits :
    f.mat.transparency >= pure_glass_threshold =>
      f.color["local"] = 0 /\ ~f.shaded

C5_Witness ==
  \E f \in ReturnedHits :
    /\ f.mat.transparency = pure_glass_threshold
    /\ f.mat.reflectivity > 0
    /\ f.tir

\* C6: every return path taken after a hit adds the material's emission
\* to the blended colour.
C6_EmissionAlwaysAdded ==
  \A f \in ReturnedHits : f.emission_added /\ f.color["emis"] = ONE

IsMirror(m) ==
  /\ m.reflectivity = Pct
  /\ m.transparency = 0
  /\ m.glossiness = Pct
  /\ m.emission_strength = 0

\* C7 as stated: for a hit on an opaque, fully reflective, non-emissive
\* mirror the returned colour is the colour of the single mirror ray with
\* no local term and no other modification.
C7_MirrorUnmodified ==
  \A f \in ReturnedHits :
    IsMirror(f.mat) =>
      /\ f.calls = 1
      /\ f.color["local"] = 0
      /\ f.color["refl"] = ONE
      /\ f.color["fres"] = 0
      /\ f.color["refr"] = 0
      /\ f.tint = Pct

\* C7 amended: for such a hit the returned colour is the colour of the
\* single mirror ray multiplied by the material's diffuse colour (the metal
\* tint), with no local term.
C7_MirrorTinted ==
  \A f \in ReturnedHits :
    IsMirror(f.mat) =>
      /\ f.calls = 1
      /\ f.samples = 1
      /\ f.color["local"] = 0
      /\ f.color["refl"] = ONE
      /\ f.color["fres"] = 0
      /\ f.color["refr"] = 0
      /\ f.tint = f.mat.diffuse_color

C7_Witness ==
  \E f \in ReturnedHits : IsMirror(f.mat) /\ f.mat.diffuse_color < Pct

Reflecting ==
  {f \in Frames : f.pc # "entry" /\ f.kind # "black" /\ f.kind # "background"
                   /\ f.mat.reflectivity > 0}

\* the reflection rays a returned call has traced: its recursive calls
\* without the Fresnel and the refraction ray
ReflectionRays(f) ==
  f.calls - (IF f.mat.transparency > 0 THEN (IF f.tir THEN 1 ELSE 2) ELSE 0)

\* C21 as stated: for a hit with reflectivity > 0, exactly one reflection
\* ray in the ideal mirror direction is traced when glossiness > 0.94, or
\* glossy_samples <= 1, or depth >= 2; in every other case exactly
\* glossy_samples rays are traced and averaged.
C21_MirrorAboveThreshold ==
  \A f \in Reflecting :
    LET single == \/ f.mat.glossiness > GlossyMirrorThreshold
                  \/ cfg.glossy_samples <= 1
                  \/ f.depth >= 2
    IN  /\ f.pc = "mirror" => single
        /\ f.pc = "glossy" => ~single
        /\ f.samples = (IF single THEN 1 ELSE cfg.glossy_samples)
        /\ f.pc = "done" =>
             ReflectionRays(f) = (IF single THEN 1 ELSE cfg.glossy_samples)

\* C21 amended: one ideal-mirror ray is traced when glossiness >= 0.94, or
\* glossy_samples <= 1, or depth >= 2; in every other case exactly
\* glossy_samples rays are traced and averaged.
C21_MirrorAtOrAboveThreshold ==
  \A f \in Reflecting :
    LET single == \/ f.mat.glossiness >= GlossyMirrorThreshold
                  \/ cfg.glossy_samples <= 1
                  \/ f.depth >= 2
    IN  /\ f.pc = "mirror" => single
        /\ f.pc = "glossy" => ~single
        /\ f.samples = (IF single THEN 1 ELSE cfg.glossy_samples)
        /\ f.pc = "done" =>
             ReflectionRays(f) = (IF single THEN 1 ELSE cfg.glossy_samples)

C21_Witness ==
  /\ cfg.glossy_samples > 1
  /\ \E f \in Reflecting :
       /\ f.pc = "done"
       /\ f.depth = 2
       /\ f.mat.glossiness < GlossyMirrorThreshold
       /\ ReflectionRays(f) = 1
  /\ \E f \in Reflecting :
       /\ f.depth < 2
       /\ f.mat.glossiness < GlossyMirrorThreshold
       /\ (f.pc = "glossy" \/ ReflectionRays(f) = cfg.glossy_samples)
  /\ \E f \in Reflecting :
       f.depth < 2 /\ f.mat.glossiness = GlossyMirrorThreshold /\ f.samples = 1

----------------------------------------------------------------------------
(* Geometry.  Points and directions are integer triples <<x, y, z>>.  A    *)
(* double is an integer, or one of the IEEE values the slab test can      *)
(* produce from a zero direction component: +infinity, -infinity, NaN.    *)

Axes == {1, 2, 3}

PInf == 1000000
NInf == -1000000
NaN == 2000000
DblMax == 100000

VecSub(a, b) == <<a[1] - b[1], a[2] - b[2], a[3] - b[3]>>

VecAdd(a, b) == <<a[1] + b[1], a[2] + b[2], a[3] + b[3]>>

VecScale(a, c) == <<a[1] * c, a[2] * c, a[3] * c>>

VecNeg(a) == <<-a[1], -a[2], -a[3]>>

Dot(a, b) == a[1] * b[1] + a[2] * b[2] + a[3] * b[3]

Cross(a, b) ==
  <<a[2] * b[3] - a[3] * b[2], a[3] * b[1] - a[1] * b[3],
    a[1] * b[2] - a[2] * b[1]>>

Sign(x) == IF x > 0 THEN 1 ELSE IF x < 0 THEN -1 ELSE 0

\* Vec3::norm of a vector along one coordinate axis
Norm(a) == <<Sign(a[1]), Sign(a[2]), Sign(a[3])>>

MinOf(a, b) == IF b < a THEN b ELSE a

MaxOf(a, b) == IF a < b THEN b ELSE a

\* comparisons of doubles: false when either side is NaN
FLess(a, b) == a # NaN /\ b # NaN /\ a < b

FLessEq(a, b) == a # NaN /\ b # NaN /\ a <= b

\* std::max(a, b) is (a < b) ? b : a and std::min(a, b) is (b < a) ? b : a
StdMax(a, b) == IF FLess(a, b) THEN b ELSE a

StdMin(a, b) == IF FLess(b, a) THEN b ELSE a

\* 1.0 / ray.direction[axis], for a direction component in {-1, 0, 1}
InvDir(d) == IF d = 0 THEN PInf ELSE d

\* (bound - origin) * inv_d
SlabT(bound, origin, inv_d) ==
  IF inv_d = PInf
  THEN IF bound - origin > 0 THEN PInf
       ELSE IF bound - origin < 0 THEN NInf ELSE NaN
  ELSE (bound - origin) * inv_d

SlabRejectsStrict(t_min, t_max) == FLess(t_max, t_min)

\* if (t_max <= t_min) return false
SlabRejects(t_min, t_max) == FLessEq(t_max, t_min)

RECURSIVE BoxSlabs(_, _, _, _, _)
\* BoundingBox::intersect: the loop over the axes from the given axis on
BoxSlabs(box, ray, axis, t_min, t_max) ==
  IF axis > 3 THEN TRUE
  ELSE LET inv_d == InvDir(ray.direction[axis])
           a == SlabT(box.min[axis], ray.origin[axis], inv_d)
           b == SlabT(box.max[axis], ray.origin[axis], inv_d)
           t0 == IF FLess(inv_d, 0) THEN b ELSE a
           t1 == IF FLess(inv_d, 0) THEN a ELSE b
           lo == StdMax(t0, t_min)
           hi == StdMin(t1, t_max)
       IN IF SlabRejects(lo, hi) THEN FALSE
          ELSE BoxSlabs(box, ray, axis + 1, lo, hi)

BoxIntersect(box, ray, t_min, t_max) == BoxSlabs(box, ray, 1, t_min, t_max)

\* the union of two boxes, as compute_bounding_box_for_objects merges them
BoxUnion(a, b) ==
  [min |-> [k \in Axes |-> MinOf(a.min[k], b.min[k])],
   max |-> [k \in Axes |-> MaxOf(a.max[k], b.max[k])]]

ZeroBox == [min |-> <<0, 0, 0>>, max |-> <<0, 0, 0>>]

----------------------------------------------------------------------------
(* HitRecord *)

NoHit ==
  [hit |-> FALSE, t |-> 0, intersection_point |-> <<0, 0, 0>>,
   normal |-> <<0, 0, 0>>, front_face |-> FALSE, material |-> "none",
   outward_normal |-> <<0, 0, 0>>]

FrontFaceFlipped(ray, outward_normal) ==
  Dot(ray.direction, outward_normal) > 0

\* front_face = ray.direction.dot(outward_normal) < 0
FrontFace(ray, outward_normal) == Dot(ray.direction, outward_normal) < 0

\* HitRecord::set_face_normal
set_face_normal(hit, ray, outward_normal) ==
  [hit EXCEPT !.front_face = FrontFace(ray, outward_normal),
              !.normal = IF FrontFace(ray, outward_normal)
                         THEN outward_normal ELSE VecNeg(outward_normal),
              !.outward_normal = outward_normal]

----------------------------------------------------------------------------
(* Primitives.  A cube is the box [-1, 1]^3 scaled by an integer and      *)
(* translated; a moving cube has a start and an end translation and the   *)
(* ray time is counted in halves (0, 1, 2 for 0.0, 0.5, 1.0).  A plane is *)
(* a list of boundary points.                                              *)

Cube(name, c, s, vis) ==
  [material |-> name, translation |-> c, scale |-> s, visible |-> vis,
   has_motion |-> FALSE, start_translation |-> c, end_translation |-> c]

MovingCube(name, c0, c1, s) ==
  [material |-> name, translation |-> c0, scale |-> s, visible |-> TRUE,
   has_motion |-> TRUE, start_translation |-> c0, end_translation |-> c1]

Plane(name, pts, vis) == [material |-> name, points |-> pts, visible |-> vis]

\* Mat4::interpolate for two keyframes that differ by a translation
CubeCenter(cube, time) ==
  IF cube.has_motion
  THEN VecAdd(cube.start_translation,
              [k \in Axes |->
                 ((cube.end_translation[k] - cube.start_translation[k]) * time)
                   \div 2])
  ELSE cube.translation

RECURSIVE CubeSlabs(_, _, _, _, _, _)
\* intersect_cube: the slab loop in object space, with the object-space
\* quantities multiplied by the scale; rel is origin - centre
CubeSlabs(rel, dir, s, axis, t_near, t_far) ==
  IF axis > 3 THEN [ok |-> TRUE, t_near |-> t_near, t_far |-> t_far]
  ELSE IF dir[axis] = 0
       THEN IF rel[axis] < -s \/ rel[axis] > s
            THEN [ok |-> FALSE, t_near |-> t_near, t_far |-> t_far]
            ELSE CubeSlabs(rel, dir, s, axis + 1, t_near, t_far)
       ELSE LET a == (-s - rel[axis]) * dir[axis]
                b == (s - rel[axis]) * dir[axis]
                t1 == IF a > b THEN b ELSE a
                t2 == IF a > b THEN a ELSE b
                near == MaxOf(t_near, t1)
                far == MinOf(t_far, t2)
            IN IF near > far
               THEN [ok |-> FALSE, t_near |-> near, t_far |-> far]
               ELSE CubeSlabs(rel, dir, s, axis + 1, near, far)

\* intersect_cube: which face the object-space hit point lies on
CubeFaceNormal(p, s) ==
  IF p[1] = s THEN <<1, 0, 0>>
  ELSE IF p[1] = -s THEN <<-1, 0, 0>>
  ELSE IF p[2] = s THEN <<0, 1, 0>>
  ELSE IF p[2] = -s THEN <<0, -1, 0>>
  ELSE IF p[3] = s THEN <<0, 0, 1>>
  ELSE <<0, 0, -1>>

Abs(x) == IF x < 0 THEN -x ELSE x

intersect_cube(cube, ray, t_min, t_max) ==
  LET c == CubeCenter(cube, ray.time)
      rel == VecSub(ray.origin, c)
      slabs == CubeSlabs(rel, ray.direction, cube.scale, 1, t_min, t_max)
      t_near == slabs.t_near
      object_hit_point == VecAdd(rel, VecScale(ray.direction, t_near))
  IN IF ~slabs.ok THEN NoHit
     ELSE IF t_near < t_min \/ t_near > t_max THEN NoHit
     ELSE set_face_normal(
            [NoHit EXCEPT !.hit = TRUE,
                          !.intersection_point = VecAdd(object_hit_point, c),
                          !.t = Abs(t_near),
                          !.material = cube.material],
            ray, CubeFaceNormal(object_hit_point, cube.scale))

\* get_cube_bounding_box: the box of one keyframe
CubeBoxAt(c, s) ==
  [min |-> [k \in Axes |-> c[k] - s], max |-> [k \in Axes |-> c[k] + s]]

get_cube_bounding_box(cube) ==
  IF cube.has_motion
  THEN BoxUnion(CubeBoxAt(cube.start_translation, cube.scale),
                CubeBoxAt(cube.end_translation, cube.scale))
  ELSE CubeBoxAt(cube.translation, cube.scale)

RECURSIVE PointsBox(_, _, _)
\* the min/max loop over the points of a plane, from point i on
PointsBox(pts, i, box) ==
  IF i > Len(pts) THEN box
  ELSE PointsBox(pts, i + 1,
                 BoxUnion(box, [min |-> pts[i], max |-> pts[i]]))

get_plane_bounding_box(plane) ==
  IF Len(plane.points) = 0 THEN ZeroBox
  ELSE PointsBox(plane.points, 1,
                 [min |-> plane.points[1], max |-> plane.points[1]])

\* intersect_plane: the point is inside the box of the boundary points on
\* every axis along which that box has an extent
WithinBounds(p, box) ==
  \A k \in Axes :
    box.max[k] - box.min[k] > 0 => ~(p[k] < box.min[k] \/ p[k] > box.max[k])

PlaneRangeHalfOpen(t, t_min, t_max) == t >= t_min /\ t < t_max

\* intersect_plane: !(t < t_min || t > t_max)
PlaneRange(t, t_min, t_max) == ~(t < t_min \/ t > t_max)

TooFewPointsNone(plane) == Len(plane.points) = 0

\* intersect_plane: if (plane.points.size() < 3) return false
TooFewPoints(plane) == Len(plane.points) < 3

\* the positions of plane.points (counted from 1) that intersect_plane reads:
\* the first three for the normal, then the whole list for the bounds
intersect_plane_reads(plane) ==
  IF TooFewPoints(plane) THEN {} ELSE {1, 2, 3} \cup (1..Len(plane.points))

\* the positions get_plane_bounding_box reads: points[0], then the whole list
get_plane_bounding_box_reads(plane) ==
  IF Len(plane.points) = 0 THEN {} ELSE {1} \cup (1..Len(plane.points))

\* the positions get_obj_center reads: the whole list unless it is empty
get_obj_center_reads(plane) ==
  IF Len(plane.points) = 0 THEN {} ELSE 1..Len(plane.points)

intersect_plane(plane, ray, t_min, t_max) ==
  IF TooFewPoints(plane) THEN NoHit
  ELSE LET v1 == VecSub(plane.points[2], plane.points[1])
           v2 == VecSub(plane.points[3], plane.points[1])
           plane_normal == Norm(Cross(v1, v2))
           denom == Dot(plane_normal, ray.direction)
           t == Dot(VecSub(plane.points[1], ray.origin), plane_normal) * denom
           intersection_point == VecAdd(ray.origin, VecScale(ray.direction, t))
       IN IF denom = 0 THEN NoHit
          ELSE IF ~PlaneRange(t, t_min, t_max) THEN NoHit
          ELSE IF ~WithinBounds(intersection_point,
                                PointsBox(plane.points, 1,
                                          [min |-> plane.points[1],
                                           max |-> plane.points[1]]))
               THEN NoHit
          ELSE set_face_normal(
                 [NoHit EXCEPT !.hit = TRUE, !.t = t,
                               !.intersection_point = intersection_point,
                               !.material = plane.material],
                 ray, plane_normal)

\* the index scheme of the scene: cubes first, then planes (0-based)
NumCubes == Len(scene.cubes)

NumPlanes == Len(scene.planes)

TotalObjects == NumCubes + NumPlanes

ObjVisible(idx) ==
  IF idx < NumCubes THEN scene.cubes[idx + 1].visible
  ELSE scene.planes[idx - NumCubes + 1].visible

intersect_obj(ray, idx, t_min, t_max) ==
  IF ~ObjVisible(idx) THEN NoHit
  ELSE IF idx < NumCubes
       THEN intersect_cube(scene.cubes[idx + 1], ray, t_min, t_max)
       ELSE intersect_plane(scene.planes[idx - NumCubes + 1], ray, t_min, t_max)

----------------------------------------------------------------------------
(* Building the BVH *)

MAX_LEAF_SIZE == 2
MAX_DEPTH == 30

GetObjBox(idx) ==
  IF idx < NumCubes THEN get_cube_bounding_box(scene.cubes[idx + 1])
  ELSE get_plane_bounding_box(scene.planes[idx - NumCubes + 1])

RECURSIVE MergeBoxes(_, _, _)
\* compute_bounding_box_for_objects: the merge loop from index i on
MergeBoxes(object_indices, i, box) ==
  IF i > Len(object_indices) THEN box
  ELSE MergeBoxes(object_indices, i + 1,
                  BoxUnion(box, GetObjBox(object_indices[i])))

compute_bounding_box_for_objects(object_indices) ==
  IF Len(object_indices) = 0 THEN ZeroBox
  ELSE MergeBoxes(object_indices, 2, GetObjBox(object_indices[1]))

choose_split_axis(bbox) ==
  LET extent == VecSub(bbox.max, bbox.min)
  IN IF extent[1] > extent[2] /\ extent[1] > extent[3] THEN 1
     ELSE IF extent[2] > extent[3] THEN 2
     ELSE 3

RECURSIVE SumPoints(_, _)
SumPoints(pts, i) ==
  IF i > Len(pts) THEN <<0, 0, 0>> ELSE VecAdd(pts[i], SumPoints(pts, i + 1))

\* get_obj_center, as the fraction num / den on each axis
get_obj_center(idx) ==
  IF idx < NumCubes
  THEN [num |-> scene.cubes[idx + 1].translation, den |-> 1]
  ELSE LET pts == scene.planes[idx - NumCubes + 1].points
       IN IF Len(pts) = 0 THEN [num |-> <<0, 0, 0>>, den |-> 1]
          ELSE [num |-> SumPoints(pts, 1), den |-> Len(pts)]

CenterLessReversed(a, b, axis) ==
  get_obj_center(b).num[axis] * get_obj_center(a).den
    < get_obj_center(a).num[axis] * get_obj_center(b).den

\* the comparator of partition_objs: center_a[axis] < center_b[axis]
CenterLess(a, b, axis) ==
  get_obj_center(a).num[axis] * get_obj_center(b).den
    < get_obj_center(b).num[axis] * get_obj_center(a).den

Range(q) == {q[i] : i \in 1..Len(q)}

Arrangements(q) ==
  {p \in [1..Len(q) -> Range(q)] : \A e \in Range(q) : \E i \in 1..Len(q) : p[i] = e}

\* std::nth_element: every arrangement in which no element before position
\* nth is greater than the element at nth and none after it is smaller
NthElement(q, nth, axis) ==
  {p \in Arrangements(q) :
     /\ \A i \in 1..(nth - 1) : ~CenterLess(p[nth], p[i], axis)
     /\ \A j \in (nth + 1)..Len(q) : ~CenterLess(p[j], p[nth], axis)}

partition_objsWhole(object_indices, axis) ==
  {[left |-> object_indices, right |-> object_indices]}

\* partition_objs: the possible (left, right) pairs
partition_objs(object_indices, axis) ==
  IF Len(object_indices) <= 1
  THEN {[left |-> object_indices, right |-> <<>>]}
  ELSE LET half == Len(object_indices) \div 2
           mid == IF half = 0 THEN 1 ELSE half
       IN {[left |-> SubSeq(p, 1, mid),
            right |-> SubSeq(p, mid + 1, Len(p))] :
             p \in NthElement(object_indices, half + 1, axis)}

LeafNodeFirstOnly(box, object_indices) ==
  [bbox |-> box, left |-> 0, right |-> 0,
   object_indices |-> IF Len(object_indices) > 1
                      THEN SubSeq(object_indices, 1, 1)
                      ELSE object_indices]

\* node->object_indices = object_indices; both children stay null
LeafNode(box, object_indices) ==
  [bbox |-> box, left |-> 0, right |-> 0, object_indices |-> object_indices]

InnerNodeOneChild(box, n) ==
  [bbox |-> box, left |-> 2 * n, right |-> 0, object_indices |-> <<>>]

\* node->left = build_bvh(left_objs, ...); node->right = build_bvh(right_objs, ...)
InnerNode(box, n) ==
  [bbox |-> box, left |-> 2 * n, right |-> 2 * n + 1, object_indices |-> <<>>]

is_leaf(node) == node.left = 0 /\ node.right = 0

BuildCall(n, object_indices, depth) ==
  [node |-> n, object_indices |-> object_indices, depth |-> depth]

\* object_indices.size() <= MAX_LEAF_SIZE || depth >= MAX_DEPTH
MakesLeaf(object_indices, depth) ==
  Len(object_indices) <= MAX_LEAF_SIZE \/ depth >= MAX_DEPTH

BuildReturnedEarly(calls) == TRUE

\* bvh_root = build_bvh(all_objects, scene): the root is stored once the
\* outermost call, and so every recursive call, has returned
BuildReturned(calls) == calls = <<>>

\* Raytracer::Raytracer: all_objects = 0 .. total_objects - 1, build_bvh
Construct ==
  /\ bvh_root = 0
  /\ bvh = <<>>
  /\ build_calls = <<>>
  /\ build_calls' = <<BuildCall(1, [i \in 1..TotalObjects |-> i - 1], 0)>>
  /\ UNCHANGED <<scene, bvh, bvh_root, queries>>
  /\ UNCHANGED <<traceVars, restVars>>

\* one call of build_bvh, up to its recursive calls
BuildNode ==
  /\ build_calls # <<>>
  /\ LET call == build_calls[Len(build_calls)]
         pending == SubSeq(build_calls, 1, Len(build_calls) - 1)
         box == compute_bounding_box_for_objects(call.object_indices)
     IN IF MakesLeaf(call.object_indices, call.depth)
        THEN /\ bvh' = (call.node :> LeafNode(box, call.object_indices)) @@ bvh
             /\ build_calls' = pending
        ELSE \E parts \in partition_objs(call.object_indices,
                                         choose_split_axis(box)) :
               IF Len(parts.left) = 0 \/ Len(parts.right) = 0
               THEN /\ bvh' = (call.node :> LeafNode(box, call.object_indices))
                                @@ bvh
                    /\ build_calls' = pending
               ELSE /\ bvh' = (call.node :> InnerNode(box, call.node)) @@ bvh
                    /\ build_calls' = pending \o
                         <<BuildCall(2 * call.node + 1, parts.right,
                                     call.depth + 1),
                           BuildCall(2 * call.node, parts.left,
                                     call.depth + 1)>>
  /\ bvh_root' = IF BuildReturned(build_calls') THEN 1 ELSE 0
  /\ UNCHANGED <<scene, queries>>
  /\ UNCHANGED <<traceVars, restVars>>

----------------------------------------------------------------------------
(* Traversal *)

Accum(t_max) == [hit |-> FALSE, closest_t |-> t_max, closest_hit |-> NoHit]

RECURSIVE LeafLoop(_, _, _, _, _)
\* intersect_bvh: the loop over the primitives of a leaf, from index i on
LeafLoop(object_indices, i, ray, t_min, acc) ==
  IF i > Len(object_indices) THEN acc
  ELSE LET temp_hit == intersect_obj(ray, object_indices[i], t_min,
                                     acc.closest_t)
       IN LeafLoop(object_indices, i + 1, ray, t_min,
                   IF temp_hit.hit
                   THEN [hit |-> TRUE, closest_t |-> temp_hit.t,
                         closest_hit |-> temp_hit]
                   ELSE acc)

RECURSIVE intersect_bvh(_, _, _, _)
\* intersect_bvh: hit is the value returned; closest_t and closest_hit are
\* the caller's accumulators after the call
intersect_bvh(n, ray, t_min, acc) ==
  IF ~BoxIntersect(bvh[n].bbox, ray, t_min, acc.closest_t)
  THEN [acc EXCEPT !.hit = FALSE]
  ELSE IF is_leaf(bvh[n])
       THEN LeafLoop(bvh[n].object_indices, 1, ray, t_min,
                     [acc EXCEPT !.hit = FALSE])
       ELSE LET l == intersect_bvh(bvh[n].left, ray, t_min, acc)
                r == intersect_bvh(bvh[n].right, ray, t_min, l)
            IN [r EXCEPT !.hit = l.hit \/ r.hit]

\* every primitive tested directly over [t_min, t_max]
DirectHits(ray, t_min, t_max) ==
  {h \in {intersect_obj(ray, idx, t_min, t_max) : idx \in 0..(TotalObjects - 1)} :
     h.hit}

NearestHits(hits) == {h \in hits : \A g \in hits : h.t <= g.t}

----------------------------------------------------------------------------
(* Scenes and rays of the model *)

MaxObjects == 3

CubeCatalog ==
  { Cube("cubeA", <<0, 0, 0>>, 1, TRUE),
    Cube("hidden", <<-4, 0, 0>>, 1, FALSE),
    MovingCube("mover", <<-4, 0, 0>>, <<-4, 4, 0>>, 1) }

PlaneCatalog ==
  { Plane("floor", << <<-6, -6, -2>>, <<6, -6, -2>>, <<6, 6, -2>>,
                      <<-6, 6, -2>> >>, TRUE),
    Plane("wall", << <<2, -2, -2>>, <<2, 2, -2>>, <<2, 2, 2>>,
                     <<2, -2, 2>> >>, TRUE),
    Plane("empty", << >>, TRUE),
    Plane("single", << <<0, 0, 3>> >>, TRUE),
    Plane("pair", << <<-6, 0, 3>>, <<6, 0, 3>> >>, TRUE) }

SeqsUpTo(S, n) == UNION {[1..k -> S] : k \in 0..n}

Scenes ==
  {sc \in [cubes : SeqsUpTo(CubeCatalog, MaxObjects),
           planes : SeqsUpTo(PlaneCatalog, MaxObjects)] :
     Len(sc.cubes) + Len(sc.planes) <= MaxObjects}

RayOrigins == {<<-8, 0, 0>>, <<0, 0, 5>>, <<0, 0, 0>>}

RayDirections ==
  {<<1, 0, 0>>, <<-1, 0, 0>>, <<0, 1, 0>>, <<0, -1, 0>>, <<0, 0, 1>>,
   <<0, 0, -1>>, <<1, 0, -1>>, <<-1, 0, -1>>, <<1, 1, 0>>}

\* Ray::time in halves: 1 is the default 0.5, 0 and 2 the shutter ends
RayTimes == {0, 2}

Rays ==
  [origin : RayOrigins, direction : RayDirections, time : {1}]
    \cup [origin : {<<-8, 0, 0>>}, direction : {<<1, 0, 0>>, <<1, 1, 0>>},
          time : RayTimes]

Intervals == {[t_min |-> 0, t_max |-> DblMax], [t_min |-> 1, t_max |-> 6]}

\* a ray is traversed from the root; the direct test of every primitive
\* over the same interval is recorded next to it
TraverseRay ==
  /\ bvh_root # 0
  /\ queries = <<>>
  /\ \E ray \in Rays, iv \in Intervals :
       queries' =
         <<[ray |-> ray, t_min |-> iv.t_min, t_max |-> iv.t_max,
            bvh |-> intersect_bvh(bvh_root, ray, iv.t_min, Accum(iv.t_max)),
            direct |-> DirectHits(ray, iv.t_min, iv.t_max)]>>
  /\ UNCHANGED <<scene, bvh, bvh_root, build_calls>>
  /\ UNCHANGED <<traceVars, restVars>>

GeomInit ==
  /\ scene \in Scenes
  /\ bvh = <<>>
  /\ bvh_root = 0
  /\ build_calls = <<>>
  /\ queries = <<>>
  /\ TraceIdle
  /\ RestIdle

GeomNext ==
  \/ Construct
  \/ BuildNode
  \/ TraverseRay

SpecGeom == GeomInit /\ [][GeomNext]_vars

----------------------------------------------------------------------------
(* Properties of the hit record and the BVH *)

Queries == {queries[i] : i \in 1..Len(queries)}

\* the hit records the solvers report for a query
ReportedHits(q) ==
  q.direct \cup (IF q.bvh.hit THEN {q.bvh.closest_hit} ELSE {})

\* C1: for every scene and ray, traversal from the built root reports a
\* hit exactly when some primitive tested directly over the same interval
\* is hit, and then with the minimum t and the material of a nearest hit.
C1_BvhEqualsDirect ==
  \A q \in Queries :
    /\ q.bvh.hit <=> q.direct # {}
    /\ q.bvh.hit =>
         \E h \in NearestHits(q.direct) :
           /\ h.t = q.bvh.closest_hit.t
           /\ h.t = q.bvh.closest_t
           /\ h.material = q.bvh.closest_hit.material

\* C9: every reported hit stores a normal that does not point along the
\* ray, and front_face holds exactly when the outward normal opposed the ray.
C9_NormalAgainstRay ==
  \A q \in Queries :
    \A h \in ReportedHits(q) :
      /\ Dot(q.ray.direction, h.normal) <= 0
      /\ h.front_face <=> Dot(q.ray.direction, h.outward_normal) < 0
      /\ h.normal \in {h.outward_normal, VecNeg(h.outward_normal)}

C9_Witness ==
  \E q \in Queries :
    /\ \E h \in ReportedHits(q) :
         /\ ~h.front_face
         /\ Dot(q.ray.direction, h.outward_normal) > 0
         /\ h.normal = VecNeg(h.outward_normal)
    /\ \E h \in ReportedHits(q) : h.front_face

\* C10: every node of the tree is an internal node with two distinct
\* non-null children and no primitive list of its own, or a leaf without
\* children; once the build has returned, every child is a built node.
C10_TwoChildrenOrLeaf ==
  \A n \in DOMAIN bvh :
    \/ /\ bvh[n].left = 0
       /\ bvh[n].right = 0
    \/ /\ bvh[n].left # 0
       /\ bvh[n].right # 0
       /\ bvh[n].left # bvh[n].right
       /\ bvh[n].object_indices = <<>>
       /\ bvh_root # 0 => {bvh[n].left, bvh[n].right} \subseteq DOMAIN bvh

C10_Witness ==
  /\ bvh_root # 0
  /\ ~is_leaf(bvh[bvh_root])
  /\ is_leaf(bvh[bvh[bvh_root].left])
  /\ is_leaf(bvh[bvh[bvh_root].right])
  /\ Len(bvh[bvh[bvh_root].right].object_indices) = 2

C15_TooFewPointsNoHit ==
  \A i \in 1..Len(scene.planes) :
    LET plane == scene.planes[i]
    IN /\ (intersect_plane_reads(plane)
             \cup get_plane_bounding_box_reads(plane)
             \cup get_obj_center_reads(plane)) \subseteq DOMAIN plane.points
       /\ Len(plane.points) < 3 =>
            \A q \in Queries :
              /\ ~intersect_obj(q.ray, NumCubes + i - 1, q.t_min, q.t_max).hit
              /\ \A h \in ReportedHits(q) : h.material # plane.material

C15_Witness ==
  /\ bvh_root # 0
  /\ ~is_leaf(bvh[bvh_root])
  /\ \E i, j \in 1..Len(scene.planes) :
       /\ Len(scene.planes[i].points) = 0
       /\ Len(scene.planes[j].points) = 2
  /\ \E q \in Queries : q.bvh.hit

\* C19: the root's subtree is visited whenever the part of the ray inside
\* the root's box has a point in common with [t_min, closest_t], also when
\* the box has no extent along an axis or the common part is a single point.
C19_VisitedWhenRayInBox ==
  \A q \in Queries :
    LET box == bvh[bvh_root].bbox
        o == q.ray.origin
        d == q.ray.direction
        moving == {k \in Axes : d[k] # 0}
        lows == {q.t_min} \cup
                {MinOf((box.min[k] - o[k]) * d[k], (box.max[k] - o[k]) * d[k]) :
                   k \in moving}
        highs == {q.t_max} \cup
                 {MaxOf((box.min[k] - o[k]) * d[k], (box.max[k] - o[k]) * d[k]) :
                    k \in moving}
        ray_in_box ==
          /\ \A k \in Axes \ moving : box.min[k] <= o[k] /\ o[k] <= box.max[k]
          /\ \A a \in lows : \A b \in highs : a <= b
    IN ray_in_box => BoxIntersect(box, q.ray, q.t_min, q.t_max)

\* p lies on one of the six faces of the cube as it stands at the time
OnCubeFace(p, cube, time) ==
  LET rel == VecSub(p, CubeCenter(cube, time))
  IN  /\ \A k \in Axes : Abs(rel[k]) <= cube.scale
      /\ \E k \in Axes : Abs(rel[k]) = cube.scale

\* C29: every hit the box solver reports lies on one of the six faces of
\* the box, also when the ray starts inside the box; a point strictly
\* inside the box is never reported as the hit point.
C29_BoxHitOnFace ==
  \A q \in Queries :
    \A h \in ReportedHits(q) :
      \A i \in 1..NumCubes :
        h.material = scene.cubes[i].material =>
          OnCubeFace(h.intersection_point, scene.cubes[i], q.ray.time)

\* the places of the leaves' index lists: <<node, position>>
LeafSlots ==
  UNION {{<<n, i>> : i \in 1..Len(bvh[n].object_indices)} :
           n \in {m \in DOMAIN bvh : is_leaf(bvh[m])}}

\* C24: in the tree built by the constructor every primitive index in
\* 0 .. total - 1 is listed by exactly one leaf, once, and no leaf lists an
\* index outside that range.
C24_LeavesPartitionPrimitives ==
  bvh_root # 0 =>
    /\ \A slot \in LeafSlots :
         bvh[slot[1]].object_indices[slot[2]] \in 0..(TotalObjects - 1)
    /\ \A idx \in 0..(TotalObjects - 1) :
         Cardinality({slot \in LeafSlots :
                        bvh[slot[1]].object_indices[slot[2]] = idx}) = 1

C24_Witness ==
  /\ bvh_root # 0
  /\ TotalObjects = MaxObjects
  /\ NumCubes > 0
  /\ NumPlanes > 0
  /\ ~is_leaf(bvh[bvh_root])
  /\ Cardinality(LeafSlots) = MaxObjects

\* centre of a <= centre of b on the axis
CentreAtMost(a, b, axis) ==
  get_obj_center(a).num[axis] * get_obj_center(b).den
    <= get_obj_center(b).num[axis] * get_obj_center(a).den

\* what C25 requires of a result of partition_objs
MedianSplit(input, axis, parts) ==
  /\ Range(parts.left) \cap Range(parts.right) = {}
  /\ Range(parts.left) \cup Range(parts.right) = Range(input)
  /\ Len(parts.left) = Len(input) \div 2
  /\ Len(parts.right) = Len(input) - Len(input) \div 2
  /\ \A a \in Range(parts.left), b \in Range(parts.right) :
       CentreAtMost(a, b, axis)

\* the two recursive calls the root's build_bvh has just made
RootJustSplit ==
  /\ Len(build_calls) = 2
  /\ build_calls[1].node = 3
  /\ build_calls[2].node = 2

\* C25: for an index set of size n > 2 and a split axis, partition_objs
\* returns two disjoint lists whose union is the input, of sizes floor(n/2)
\* and ceil(n/2), with every left centre <= every right centre on the axis:
\* for every result on the scene's index set and every axis (evaluated
\* before the first node is built; the scene does not change), and for the
\* lists the root's build_bvh call handed to its two recursive calls.
C25_MedianPartition ==
  LET all_objects == [i \in 1..TotalObjects |-> i - 1]
  IN  TotalObjects > 2 =>
        /\ bvh = <<>> =>
             \A axis \in Axes :
               \A parts \in partition_objs(all_objects, axis) :
                 MedianSplit(all_objects, axis, parts)
        /\ RootJustSplit =>
             MedianSplit(all_objects, choose_split_axis(bvh[1].bbox),
                         [left |-> build_calls[2].object_indices,
                          right |-> build_calls[1].object_indices])

C25_Witness ==
  /\ TotalObjects > 2
  /\ RootJustSplit
  /\ \E a \in Range(build_calls[2].object_indices),
        b \in Range(build_calls[1].object_indices) :
       ~CentreAtMost(b, a, choose_split_axis(bvh[1].bbox))

BuildWeight(call) ==
  IF Len(call.object_indices) = 0 THEN 1
  ELSE 2 * Len(call.object_indices) - 1

RECURSIVE BuildMeasure(_)
\* a bound on the calls of build_bvh still to be made
BuildMeasure(calls) ==
  IF calls = <<>> THEN 0
  ELSE BuildWeight(calls[Len(calls)])
       + BuildMeasure(SubSeq(calls, 1, Len(calls) - 1))

\* C26: build_bvh terminates, also when all centres coincide: a call of
\* build_bvh lowers the bound on the calls still to be made, and every
\* recursive call it makes receives a non-empty index set strictly smaller
\* than its own.
C26_BuildTerminates ==
  [][build_calls # <<>> =>
       /\ BuildMeasure(build_calls') < BuildMeasure(build_calls)
       /\ \A i \in Len(build_calls)..Len(build_calls') :
            /\ Len(build_calls'[i].object_indices) >= 1
            /\ Len(build_calls'[i].object_indices)
                 < Len(build_calls[Len(build_calls)].object_indices)]_vars

C26_Witness ==
  /\ bvh_root # 0
  /\ NumCubes = MaxObjects
  /\ \A i \in 1..NumCubes :
       scene.cubes[i].translation = scene.cubes[1].translation
  /\ ~is_leaf(bvh[bvh_root])
  /\ \A n \in DOMAIN bvh : Len(bvh[n].object_indices) <= MAX_LEAF_SIZE

----------------------------------------------------------------------------
(* Raytracer::render: the thread count and the parallel loop over the rows *)
(* (#pragma omp parallel for schedule(guided, 1)).  Each thread of the     *)
(* team repeatedly takes a chunk of consecutive rows from the schedule,    *)
(* computes and assigns the pixels of each row from left to right, and     *)
(* after each row enters the critical section progress_bar.  The size of   *)
(* a guided chunk is left to the OpenMP runtime: any size from 1 to the    *)
(* number of rows not yet handed out.                                      *)

MaxThreads == 2
MaxHeight == 3
MaxWidth == 2

notRenderVars ==
  <<traceVars, geomVars, texVars, barVars, solveVars, shadowVars, sampleVars>>

\* lines 526-532: without OMP_NUM_THREADS the team is set to
\* hardware_concurrency(); with it the runtime takes the variable's value
TeamSize(opt) ==
  IF opt.omp_num_threads = 0 THEN opt.hardware_concurrency
  ELSE opt.omp_num_threads

WorkerAt(pc, lo, hi, y, x) == [pc |-> pc, lo |-> lo, hi |-> hi, y |-> y, x |-> x]

\* a count of events, kept exact up to 2
Bump(n) == IF n < 2 THEN n + 1 ELSE n

\* the loop body of row y is started by thread w
RowStarted(runs, y, w) ==
  [runs EXCEPT ![y] = [count |-> Bump(@.count), by |-> @.by \cup {w}]]

NextAfterGrabStale(next, size) == next + size - 1

\* the schedule hands out rows next .. next + size - 1 and moves on
NextAfterGrab(next, size) == next + size

SomeAtBarrier(ws) == \E w \in DOMAIN ws : ws[w].pc = "barrier"

\* the implicit barrier at the end of the parallel loop
AllAtBarrier(ws) == \A w \in DOMAIN ws : ws[w].pc = "barrier"

\* render is called: Image output(height, width), the team is formed
RenderStart ==
  /\ team = 0
  /\ ~returned
  /\ team' = TeamSize(options)
  /\ workers' = [w \in 1..TeamSize(options) |-> WorkerAt("grab", 0, 0, 0, 0)]
  /\ image' = [y \in 0..(options.height - 1) |->
                 [x \in 0..(options.width - 1) |-> 0]]
  /\ row_runs' = [y \in 0..(options.height - 1) |-> [count |-> 0, by |-> {}]]
  /\ next_row' = 0
  /\ UNCHANGED <<options, critical, returned>>
  /\ UNCHANGED notRenderVars

\* a thread asks the schedule for its next chunk of rows
GrabRows(w) ==
  /\ workers[w].pc = "grab"
  /\ IF next_row < options.height
     THEN \E size \in 1..(options.height - next_row) :
            /\ workers' = [workers EXCEPT
                             ![w] = WorkerAt("row", next_row, next_row + size,
                                             next_row, 0)]
            /\ next_row' = NextAfterGrab(next_row, size)
            /\ row_runs' = RowStarted(row_runs, next_row, w)
     ELSE /\ workers' = [workers EXCEPT ![w].pc = "barrier"]
          /\ UNCHANGED <<next_row, row_runs>>
  /\ UNCHANGED <<options, team, image, critical, returned>>
  /\ UNCHANGED notRenderVars

\* one pass of the x loop: the samples are traced and averaged, then
\* output.pixels[y][x] = pixel_color
WritePixel(w) ==
  /\ workers[w].pc = "row"
  /\ LET y == workers[w].y
         x == workers[w].x
     IN /\ image' = [image EXCEPT ![y][x] = Bump(@)]
        /\ workers' = [workers EXCEPT
                         ![w].x = x + 1,
                         ![w].pc = IF x + 1 < options.width
                                   THEN "row" ELSE "critical"]
  /\ UNCHANGED <<options, team, next_row, row_runs, critical, returned>>
  /\ UNCHANGED notRenderVars

\* #pragma omp critical(progress_bar): entered when no thread is inside
EnterCritical(w) ==
  /\ workers[w].pc = "critical"
  /\ critical = 0
  /\ critical' = w
  /\ workers' = [workers EXCEPT ![w].pc = "update"]
  /\ UNCHANGED <<options, team, next_row, image, row_runs, returned>>
  /\ UNCHANGED notRenderVars

\* the csv line and bar.update(), the end of the critical section and of
\* the loop body; the next row of the chunk starts, or the chunk is done
LeaveCritical(w) ==
  /\ workers[w].pc = "update"
  /\ critical = w
  /\ critical' = 0
  /\ LET y == workers[w].y + 1
     IN IF y < workers[w].hi
        THEN /\ workers' = [workers EXCEPT ![w].y = y, ![w].x = 0,
                                           ![w].pc = "row"]
             /\ row_runs' = RowStarted(row_runs, y, w)
        ELSE /\ workers' = [workers EXCEPT ![w].pc = "grab"]
             /\ UNCHANGED row_runs
  /\ UNCHANGED <<options, team, next_row, image, returned>>
  /\ UNCHANGED notRenderVars

\* after the barrier: bar.finish(), the statistics, return output
RenderReturn ==
  /\ team # 0
  /\ ~returned
  /\ AllAtBarrier(workers)
  /\ returned' = TRUE
  /\ UNCHANGED <<options, team, next_row, workers, image, row_runs, critical>>
  /\ UNCHANGED notRenderVars

RenderInit ==
  /\ options \in [num_threads : 0..MaxThreads,
                  omp_num_threads : 0..MaxThreads,
                  hardware_concurrency : 1..MaxThreads,
                  width : 1..MaxWidth,
                  height : 0..MaxHeight]
  /\ team = 0
  /\ next_row = 0
  /\ workers = <<>>
  /\ image = <<>>
  /\ row_runs = <<>>
  /\ critical = 0
  /\ returned = FALSE
  /\ TraceIdle
  /\ GeomIdle
  /\ TexIdle
  /\ BarIdle
  /\ SolveIdle
  /\ ShadowIdle
  /\ SampleIdle

RenderNext ==
  \/ RenderStart
  \/ \E w \in DOMAIN workers : GrabRows(w)
  \/ \E w \in DOMAIN workers : WritePixel(w)
  \/ \E w \in DOMAIN workers : EnterCritical(w)
  \/ \E w \in DOMAIN workers : LeaveCritical(w)
  \/ RenderReturn

SpecRender == RenderInit /\ [][RenderNext]_vars

\* the threads of the team keep running and the critical section is left
\* after finitely many steps, so some enabled step is eventually taken
SpecRenderFair == SpecRender /\ WF_vars(RenderNext)

----------------------------------------------------------------------------
(* Properties of render *)

Rows == DOMAIN image

RowsComplete ==
  /\ \A y \in Rows : \A x \in DOMAIN image[y] : image[y][x] >= 1
  /\ \A y \in Rows : row_runs[y].count >= 1
  /\ \A w \in DOMAIN workers : workers[w].pc \in {"grab", "barrier"}

\* C12: no row is started more than once or by more than one thread and no
\* pixel is assigned more than once; when render returns every row has been
\* run once and every pixel assigned once.
C12_EachRowOnce ==
  /\ \A y \in Rows :
       /\ row_runs[y].count <= 1
       /\ Cardinality(row_runs[y].by) <= 1
       /\ \A x \in DOMAIN image[y] : image[y][x] <= 1
  /\ returned =>
       \A y \in Rows :
         /\ row_runs[y].count = 1
         /\ \A x \in DOMAIN image[y] : image[y][x] = 1

C12_Witness ==
  /\ returned
  /\ team = MaxThreads
  /\ options.height = MaxHeight
  /\ \E y1, y2 \in Rows : row_runs[y1].by # row_runs[y2].by

C17_ThreadsOptionIsTeamSize ==
  (team # 0 /\ options.num_threads # 0) => team = options.num_threads

----------------------------------------------------------------------------
(* TextureManager: the map textures and the std::shared_mutex guarding it, *)
(* used by load_texture, sample and has_texture, and by their two callers  *)
(* Raytracer::preload_textures (has_texture, then load_texture) and        *)
(* Raytracer::shade (has_texture, then sample).  A thread's pc names the   *)
(* statement it executes next.                                             *)

MaxTexThreads == 2
MaxTexCalls == 2

notTexVars ==
  <<traceVars, geomVars, renderVars, barVars, solveVars, shadowVars, sampleVars>>

TexFiles == {"wood.ppm", "missing.ppm"}

\* the file can be opened and is a PPM image of positive size
OnDisk(file) == file = "wood.ppm"

TexCalls == {"load_texture", "sample", "has_texture", "preload", "shade"}

\* the first statement of a call: has_texture, preload_textures and shade
\* begin with has_texture; every function begins by taking the shared lock
FirstPc(top) ==
  IF top = "load_texture" THEN "load_rlock"
  ELSE IF top = "sample" THEN "sample_rlock"
  ELSE "has_rlock"

\* statements that read the map (find) or the image found in it
ReadPcs == {"load_find1", "load_find2", "sample_find", "has_find"}

\* statements that modify the map (textures[filename] = texture)
WritePcs == {"load_insert"}

TexThread(top, file, pc, calls) ==
  [top |-> top, file |-> file, pc |-> pc, calls |-> calls, ret |-> FALSE,
   color |-> "none"]

\* std::shared_lock: granted when no thread holds the mutex exclusively
CanLockShared(m) == m.exclusive = 0

CanLockExclusiveLax(m) == m.exclusive = 0

\* std::unique_lock: granted when no thread holds the mutex in either mode
CanLockExclusive(m) == m.exclusive = 0 /\ m.shared = {}

LockShared(m, t) == [m EXCEPT !.shared = @ \cup {t}]

UnlockShared(m, t) == [m EXCEPT !.shared = @ \ {t}]

LockExclusive(m, t) == [m EXCEPT !.exclusive = t]

UnlockExclusive(m, t) == [m EXCEPT !.exclusive = 0]

\* textures.find(filename) != textures.end()
Found(file) == file \in DOMAIN textures

\* Image(filepath) returns before setting width and height when the file
\* cannot be opened or is not a PPM; load_texture then reads the two
\* uninitialised ints: "zero" if both happen to be 0, "garbage" otherwise
LoadedDims(file) == IF OnDisk(file) THEN {"good"} ELSE {"zero", "garbage"}

\* what sample returns for an entry of the map: bilinear texels of a good
\* image; for an image without pixels the reads texture.pixels[y][x] are
\* out of bounds (any colour, or the process dies)
SampleOf(stored) ==
  IF stored = "good" THEN {"texel"} ELSE {"arbitrary", "abort"}

\* a thread calls one of the functions
TexStart(t) ==
  /\ tex_threads[t].pc = "idle"
  /\ tex_threads[t].calls < MaxTexCalls
  /\ \E top \in TexCalls, file \in TexFiles :
       tex_threads' = [tex_threads EXCEPT
                         ![t] = TexThread(top, file, FirstPc(top),
                                          tex_threads[t].calls + 1)]
  /\ UNCHANGED <<textures, tex_mutex>>
  /\ UNCHANGED notTexVars

\* std::shared_lock<std::shared_mutex> lock(mutex)
TexLockShared(t) ==
  /\ tex_threads[t].pc \in {"load_rlock", "sample_rlock", "has_rlock"}
  /\ CanLockShared(tex_mutex)
  /\ tex_mutex' = LockShared(tex_mutex, t)
  /\ tex_threads' = [tex_threads EXCEPT
                       ![t].pc = IF @ = "load_rlock" THEN "load_find1"
                                 ELSE IF @ = "sample_rlock" THEN "sample_find"
                                 ELSE "has_find"]
  /\ UNCHANGED textures
  /\ UNCHANGED notTexVars

\* has_texture: find under the shared lock, unlock, return; the caller
\* goes on: preload_textures loads what is missing, shade samples what is
\* there and otherwise keeps the material's diffuse colour
HasFind(t) ==
  /\ tex_threads[t].pc = "has_find"
  /\ tex_mutex' = UnlockShared(tex_mutex, t)
  /\ LET th == tex_threads[t]
         found == Found(th.file)
     IN tex_threads' =
          [tex_threads EXCEPT
             ![t].ret = found,
             ![t].pc = IF th.top = "preload" /\ ~found THEN "load_rlock"
                       ELSE IF th.top = "shade" /\ found THEN "sample_rlock"
                       ELSE "idle",
             ![t].color = IF th.top = "shade" /\ ~found THEN "diffuse"
                          ELSE "none"]
  /\ UNCHANGED textures
  /\ UNCHANGED notTexVars

\* load_texture: the first check, under the shared lock
LoadFind1(t) ==
  /\ tex_threads[t].pc = "load_find1"
  /\ tex_mutex' = UnlockShared(tex_mutex, t)
  /\ tex_threads' =
       [tex_threads EXCEPT
          ![t].ret = Found(tex_threads[t].file),
          ![t].pc = IF Found(tex_threads[t].file) THEN "idle" ELSE "load_wlock"]
  /\ UNCHANGED textures
  /\ UNCHANGED notTexVars

\* std::unique_lock<std::shared_mutex> lock(mutex)
LoadLockExclusive(t) ==
  /\ tex_threads[t].pc = "load_wlock"
  /\ CanLockExclusive(tex_mutex)
  /\ tex_mutex' = LockExclusive(tex_mutex, t)
  /\ tex_threads' = [tex_threads EXCEPT ![t].pc = "load_find2"]
  /\ UNCHANGED textures
  /\ UNCHANGED notTexVars

\* the second check, under the exclusive lock
LoadFind2(t) ==
  /\ tex_threads[t].pc = "load_find2"
  /\ IF Found(tex_threads[t].file)
     THEN /\ tex_mutex' = UnlockExclusive(tex_mutex, t)
          /\ tex_threads' = [tex_threads EXCEPT ![t].ret = TRUE,
                                                ![t].pc = "idle"]
     ELSE /\ tex_threads' = [tex_threads EXCEPT ![t].pc = "load_file"]
          /\ UNCHANGED tex_mutex
  /\ UNCHANGED textures
  /\ UNCHANGED notTexVars

\* make_shared<Image>(texture_path) and the test of width and height
LoadFile(t) ==
  /\ tex_threads[t].pc = "load_file"
  /\ \E dims \in LoadedDims(tex_threads[t].file) :
       IF dims = "zero"
       THEN /\ tex_mutex' = UnlockExclusive(tex_mutex, t)
            /\ tex_threads' = [tex_threads EXCEPT ![t].ret = FALSE,
                                                  ![t].pc = "idle"]
       ELSE /\ tex_threads' = [tex_threads EXCEPT ![t].pc = "load_insert",
                                                  ![t].color = dims]
            /\ UNCHANGED tex_mutex
  /\ UNCHANGED textures
  /\ UNCHANGED notTexVars

\* textures[filename] = texture; return true
LoadInsert(t) ==
  /\ tex_threads[t].pc = "load_insert"
  /\ textures' = (tex_threads[t].file :> tex_threads[t].color) @@ textures
  /\ tex_mutex' = UnlockExclusive(tex_mutex, t)
  /\ tex_threads' = [tex_threads EXCEPT ![t].ret = TRUE, ![t].pc = "idle",
                                        ![t].color = "none"]
  /\ UNCHANGED notTexVars

\* sample: find under the shared lock; debug pink for an unknown filename,
\* otherwise the pixels of the stored image are read
SampleFind(t) ==
  /\ tex_threads[t].pc = "sample_find"
  /\ tex_mutex' = UnlockShared(tex_mutex, t)
  /\ LET file == tex_threads[t].file
     IN \E c \in (IF Found(file) THEN SampleOf(textures[file]) ELSE {"pink"}) :
          tex_threads' = [tex_threads EXCEPT
                            ![t].color = c,
                            ![t].pc = IF c = "abort" THEN "aborted" ELSE "idle"]
  /\ UNCHANGED textures
  /\ UNCHANGED notTexVars

TexInit ==
  /\ textures = <<>>
  /\ tex_mutex = [shared |-> {}, exclusive |-> 0]
  /\ tex_threads = [t \in 1..MaxTexThreads |-> TexThread("none", "none", "idle", 0)]
  /\ TraceIdle
  /\ GeomIdle
  /\ RenderIdle
  /\ BarIdle
  /\ SolveIdle
  /\ ShadowIdle
  /\ SampleIdle

TexNext ==
  \/ \E t \in DOMAIN tex_threads : TexStart(t)
  \/ \E t \in DOMAIN tex_threads : TexLockShared(t)
  \/ \E t \in DOMAIN tex_threads : HasFind(t)
  \/ \E t \in DOMAIN tex_threads : LoadFind1(t)
  \/ \E t \in DOMAIN tex_threads : LoadLockExclusive(t)
  \/ \E t \in DOMAIN tex_threads : LoadFind2(t)
  \/ \E t \in DOMAIN tex_threads : LoadFile(t)
  \/ \E t \in DOMAIN tex_threads : LoadInsert(t)
  \/ \E t \in DOMAIN tex_threads : SampleFind(t)

SpecTex == TexInit /\ [][TexNext]_vars

----------------------------------------------------------------------------
(* Properties of the texture cache *)

TexThreadIds == DOMAIN tex_threads

HoldsShared(t) == t \in tex_mutex.shared

HoldsExclusive(t) == tex_mutex.exclusive = t

\* C14: a thread about to modify the map holds the exclusive lock, a
\* thread about to read it holds the shared or the exclusive lock, and no
\* thread is about to read or modify the map while another is about to
\* modify it.
C14_MapAccessUnderLock ==
  /\ \A t \in TexThreadIds :
       /\ tex_threads[t].pc \in WritePcs => HoldsExclusive(t)
       /\ tex_threads[t].pc \in ReadPcs => HoldsShared(t) \/ HoldsExclusive(t)
  /\ \A t1, t2 \in TexThreadIds :
       (t1 # t2 /\ tex_threads[t1].pc \in WritePcs)
         => tex_threads[t2].pc \notin (ReadPcs \cup WritePcs)

C14_Witness ==
  \E t1, t2 \in TexThreadIds :
    /\ tex_threads[t1].pc = "load_insert"
    /\ HoldsExclusive(t1)
    /\ tex_threads[t2].pc \in {"sample_rlock", "has_rlock", "load_wlock"}
    /\ tex_threads[t2].file = tex_threads[t1].file

\* C16: a shade that has finished for a material whose texture file cannot
\* be loaded did not end the process and used the placeholder colour that
\* sample returns for an unknown filename.
C16_MissingTextureShadedPink ==
  \A t \in TexThreadIds :
    (/\ tex_threads[t].top = "shade"
     /\ tex_threads[t].pc \in {"idle", "aborted"}
     /\ ~OnDisk(tex_threads[t].file))
      => tex_threads[t].color = "pink"

\* C23: when several threads call load_texture for the same path, the
\* image is constructed and inserted at most once: a thread constructs or
\* inserts only while the path is absent and it holds the exclusive lock, a
\* call that has returned true left the path in the cache, and a load that
\* failed (the file cannot be read) leaves the cache unchanged.
C23_LoadedAtMostOnce ==
  /\ \A t \in TexThreadIds :
       /\ tex_threads[t].pc \in {"load_file", "load_insert"} =>
            ~Found(tex_threads[t].file) /\ HoldsExclusive(t)
       /\ (/\ tex_threads[t].top = "load_texture"
           /\ tex_threads[t].pc = "idle"
           /\ tex_threads[t].ret) => Found(tex_threads[t].file)
  /\ \A file \in DOMAIN textures : OnDisk(file)

----------------------------------------------------------------------------
(* tqdm::ProgressBar::update(), called by several threads with no lock     *)
(* around the call.  current_ticks is a std::atomic; next_refresh_check,   *)
(* check_interval, last_refresh_time and last_ticks are plain members.     *)
(* Time is not measured: whether 0.1 s have passed since the last refresh  *)
(* is open, and so is the interval computed from the measured rate.        *)

MaxBarThreads == 2
MaxBarCalls == 2
MaxInterval == 4

notBarVars ==
  <<traceVars, geomVars, renderVars, texVars, solveVars, shadowVars, sampleVars>>

BarThread(pc, curr, calls, ticked) ==
  [pc |-> pc, curr |-> curr, calls |-> calls, ticked |-> ticked]

Access(field, kind) == [field |-> field, kind |-> kind]

\* the plain members the statement at pc reads ("r") or writes ("w")
BarAccesses(pc) ==
  IF pc = "check_due" THEN {Access("next_refresh_check", "r")}
  ELSE IF pc = "check_clock" THEN {Access("last_refresh_time", "r")}
  ELSE IF pc = "backoff_interval" THEN {Access("check_interval", "w")}
  ELSE IF pc = "backoff_next"
       THEN {Access("check_interval", "r"), Access("next_refresh_check", "w")}
  ELSE IF pc = "final_display" THEN {Access("last_refresh_time", "r")}
  ELSE IF pc \in {"final_store", "locked_display"}
       THEN {Access("last_refresh_time", "w"), Access("last_ticks", "w")}
  ELSE IF pc = "locked_interval"
       THEN {Access("check_interval", "w"), Access("next_refresh_check", "w")}
  ELSE {}

\* a thread enters update()
BarStart(t) ==
  /\ bar_threads[t].pc = "idle"
  /\ bar_threads[t].calls < MaxBarCalls
  /\ bar_threads' = [bar_threads EXCEPT ![t].pc = "inc", ![t].calls = @ + 1]
  /\ UNCHANGED bar
  /\ UNCHANGED notBarVars

\* unsigned int curr = ++current_ticks; if (curr == total_ticks) ...
BarIncrement(t) ==
  /\ bar_threads[t].pc = "inc"
  /\ bar' = [bar EXCEPT !.current_ticks = @ + 1]
  /\ bar_threads' =
       [bar_threads EXCEPT
          ![t].curr = bar.current_ticks + 1,
          ![t].ticked = @ + 1,
          ![t].pc = IF bar.current_ticks + 1 = bar.total_ticks
                    THEN "final_lock" ELSE "check_due"]
  /\ UNCHANGED notBarVars

\* std::lock_guard<std::mutex> lock(bar_mutex), waiting until it is free
BarFinalLock(t) ==
  /\ bar_threads[t].pc = "final_lock"
  /\ bar.bar_mutex = 0
  /\ bar' = [bar EXCEPT !.bar_mutex = t]
  /\ bar_threads' = [bar_threads EXCEPT ![t].pc = "final_display"]
  /\ UNCHANGED notBarVars

\* display() for the last tick: diff_seconds = now - last_refresh_time; the
\* smoothing state is stored only if more than 1 ms has passed
BarFinalDisplay(t) ==
  /\ bar_threads[t].pc = "final_display"
  /\ \E store \in BOOLEAN :
       IF store
       THEN /\ bar_threads' = [bar_threads EXCEPT ![t].pc = "final_store"]
            /\ UNCHANGED bar
       ELSE /\ bar_threads' = [bar_threads EXCEPT ![t].pc = "idle"]
            /\ bar' = [bar EXCEPT !.bar_mutex = 0]
  /\ UNCHANGED notBarVars

\* last_refresh_time = now; last_ticks = curr; print, unlock, return
BarFinalStore(t) ==
  /\ bar_threads[t].pc = "final_store"
  /\ bar' = [bar EXCEPT !.last_ticks = bar.current_ticks,
                        !.refreshes = Bump(@),
                        !.bar_mutex = 0]
  /\ bar_threads' = [bar_threads EXCEPT ![t].pc = "idle"]
  /\ UNCHANGED notBarVars

\* if (curr < next_refresh_check) return
BarCheckDue(t) ==
  /\ bar_threads[t].pc = "check_due"
  /\ bar_threads' =
       [bar_threads EXCEPT
          ![t].pc = IF bar_threads[t].curr < bar.next_refresh_check
                    THEN "idle" ELSE "check_clock"]
  /\ UNCHANGED bar
  /\ UNCHANGED notBarVars

\* elapsed = now - last_refresh_time; if (elapsed < 0.1) ...
BarCheckClock(t) ==
  /\ bar_threads[t].pc = "check_clock"
  /\ \E too_soon \in BOOLEAN :
       bar_threads' = [bar_threads EXCEPT
                         ![t].pc = IF too_soon THEN "backoff_interval"
                                   ELSE "try_lock"]
  /\ UNCHANGED bar
  /\ UNCHANGED notBarVars

\* check_interval *= 2
BarBackoffInterval(t) ==
  /\ bar_threads[t].pc = "backoff_interval"
  /\ bar' = [bar EXCEPT !.check_interval = MinOf(@ * 2, MaxInterval)]
  /\ bar_threads' = [bar_threads EXCEPT ![t].pc = "backoff_next"]
  /\ UNCHANGED notBarVars

\* next_refresh_check = curr + check_interval; return
BarBackoffNext(t) ==
  /\ bar_threads[t].pc = "backoff_next"
  /\ bar' = [bar EXCEPT !.next_refresh_check =
                          bar_threads[t].curr + bar.check_interval]
  /\ bar_threads' = [bar_threads EXCEPT ![t].pc = "idle"]
  /\ UNCHANGED notBarVars

\* std::unique_lock<std::mutex> lock(bar_mutex, std::try_to_lock)
BarTryLock(t) ==
  /\ bar_threads[t].pc = "try_lock"
  /\ IF bar.bar_mutex = 0
     THEN /\ bar' = [bar EXCEPT !.bar_mutex = t]
          /\ bar_threads' = [bar_threads EXCEPT ![t].pc = "locked_display"]
     ELSE /\ bar_threads' = [bar_threads EXCEPT ![t].pc = "idle"]
          /\ UNCHANGED bar
  /\ UNCHANGED notBarVars

\* prev_ticks = last_ticks; display()
BarLockedDisplay(t) ==
  /\ bar_threads[t].pc = "locked_display"
  /\ bar' = [bar EXCEPT !.last_ticks = bar.current_ticks,
                        !.refreshes = Bump(@)]
  /\ bar_threads' = [bar_threads EXCEPT ![t].pc = "locked_interval"]
  /\ UNCHANGED notBarVars

\* check_interval = max(1, rate * 0.1); next_refresh_check = curr +
\* check_interval; unlock
BarLockedInterval(t) ==
  /\ bar_threads[t].pc = "locked_interval"
  /\ \E interval \in 1..MaxInterval :
       bar' = [bar EXCEPT !.check_interval = interval,
                          !.next_refresh_check = bar_threads[t].curr + interval,
                          !.bar_mutex = 0]
  /\ bar_threads' = [bar_threads EXCEPT ![t].pc = "idle"]
  /\ UNCHANGED notBarVars

\* ProgressBar bar(total): the constructor and the member initialisers
BarInit ==
  /\ \E total \in 1..(MaxBarThreads * MaxBarCalls) :
       bar = [total_ticks |-> total, current_ticks |-> 0,
              next_refresh_check |-> 0, check_interval |-> 1,
              last_ticks |-> 0, refreshes |-> 0, bar_mutex |-> 0]
  /\ bar_threads = [t \in 1..MaxBarThreads |-> BarThread("idle", 0, 0, 0)]
  /\ TraceIdle
  /\ GeomIdle
  /\ RenderIdle
  /\ TexIdle
  /\ SolveIdle
  /\ ShadowIdle
  /\ SampleIdle

BarNext ==
  \/ \E t \in DOMAIN bar_threads : BarStart(t)
  \/ \E t \in DOMAIN bar_threads : BarIncrement(t)
  \/ \E t \in DOMAIN bar_threads : BarFinalLock(t)
  \/ \E t \in DOMAIN bar_threads : BarFinalDisplay(t)
  \/ \E t \in DOMAIN bar_threads : BarFinalStore(t)
  \/ \E t \in DOMAIN bar_threads : BarCheckDue(t)
  \/ \E t \in DOMAIN bar_threads : BarCheckClock(t)
  \/ \E t \in DOMAIN bar_threads : BarBackoffInterval(t)
  \/ \E t \in DOMAIN bar_threads : BarBackoffNext(t)
  \/ \E t \in DOMAIN bar_threads : BarTryLock(t)
  \/ \E t \in DOMAIN bar_threads : BarLockedDisplay(t)
  \/ \E t \in DOMAIN bar_threads : BarLockedInterval(t)

SpecBar == BarInit /\ [][BarNext]_vars

----------------------------------------------------------------------------
(* Properties of the progress bar *)

RECURSIVE TicksOf(_)
\* the increments performed by threads 1 .. n
TicksOf(n) == IF n = 0 THEN 0 ELSE bar_threads[n].ticked + TicksOf(n - 1)

\* two threads are about to access the same plain member, one of them
\* writing it, and at most one of them inside the mutex
DataRace ==
  \E t1, t2 \in DOMAIN bar_threads :
    /\ t1 # t2
    /\ \E a1 \in BarAccesses(bar_threads[t1].pc),
          a2 \in BarAccesses(bar_threads[t2].pc) :
         /\ a1.field = a2.field
         /\ "w" \in {a1.kind, a2.kind}

\* C18: with update() called by several threads and no lock around it, no
\* increment of the tick count is lost and no member of the bar is accessed
\* by two threads at once with one of them writing it.
C18_UpdateThreadSafe ==
  /\ bar.current_ticks = TicksOf(Len(bar_threads))
  /\ ~DataRace

----------------------------------------------------------------------------
(* intersect_sphere, intersect_cylinder, intersect_cone.  The shapes carry *)
(* the identity transform, so the object-space ray is the world ray.  Rays *)
(* start on the integer lattice and run along an axis; inputs whose        *)
(* discriminant is not a perfect square are left out, so that every root   *)
(* is an integer and the arithmetic below is the code's arithmetic.        *)

MaxCoord == 3
MaxT == 5

notSolveVars ==
  <<traceVars, geomVars, renderVars, texVars, barVars, shadowVars, sampleVars>>

Shape(kind, radius, depth) == [kind |-> kind, radius |-> radius, depth |-> depth]

SolveShapes ==
  { Shape("sphere", 1, 2), Shape("cylinder", 1, 2), Shape("cylinder", 2, 2),
    Shape("cylinder", 2, 4), Shape("cone", 2, 2) }

SolveDirections ==
  { <<1, 0, 0>>, <<-1, 0, 0>>, <<0, 1, 0>>, <<0, -1, 0>>,
    <<0, 0, 1>>, <<0, 0, -1>> }

SolveInput(shape, origin, direction, t_min, t_max) ==
  [shape |-> shape, origin |-> origin, direction |-> direction,
   t_min |-> t_min, t_max |-> t_max]

IsSquare(n) == \E s \in 0..n : s * s = n

\* std::sqrt of a perfect square
Sqrt(n) == CHOOSE s \in 0..n : s * s = n

\* x / y where y divides x
Quot(x, y) == IF y < 0 THEN (-x) \div (-y) ELSE x \div y

RayAt(in, t) == [i \in Axes |-> in.origin[i] + t * in.direction[i]]

Miss == [hit |-> FALSE, t |-> 0]

\* hit.t = |hit point - ray.origin| / |ray.direction|
HitAt(in, t) ==
  [hit |-> TRUE, t |-> Quot(Abs(t) * Dot(in.direction, in.direction),
                            Dot(in.direction, in.direction))]

SphereDiscriminant(in) ==
  LET a == Dot(in.direction, in.direction)
      half_b == Dot(in.origin, in.direction)
      c == Dot(in.origin, in.origin) - 1
  IN  half_b * half_b - a * c

intersect_sphere(in) ==
  LET a == Dot(in.direction, in.direction)
      half_b == Dot(in.origin, in.direction)
      discriminant == SphereDiscriminant(in)
      sqrtd == Sqrt(discriminant)
      near == Quot(-half_b - sqrtd, a)
      far == Quot(-half_b + sqrtd, a)
  IN  IF discriminant < 0 THEN Miss
      ELSE IF ~(near < in.t_min \/ near > in.t_max) THEN HitAt(in, near)
      ELSE IF far < in.t_min \/ far > in.t_max THEN Miss
      ELSE HitAt(in, far)

CylinderDiscriminant(in) ==
  LET o == in.origin
      d == in.direction
      a == d[1] * d[1] + d[2] * d[2]
      b == 2 * (o[1] * d[1] + o[2] * d[2])
      c == o[1] * o[1] + o[2] * o[2] - in.shape.radius * in.shape.radius
  IN  b * b - 4 * a * c

Near(t_near, hit_something) == [t_near |-> t_near, hit_something |-> hit_something]

\* the lambda check_cylinder_hit
check_cylinder_hit(in, s, t) ==
  LET half_depth == in.shape.depth \div 2
      z == in.origin[3] + t * in.direction[3]
  IN  IF t >= in.t_min /\ t < s.t_near /\ z >= -half_depth /\ z <= half_depth
      THEN Near(t, TRUE)
      ELSE s

\* a cap test of the cylinder and the base test of the cone
check_cap(in, s, t_cap) ==
  LET x == in.origin[1] + t_cap * in.direction[1]
      y == in.origin[2] + t_cap * in.direction[2]
  IN  IF /\ t_cap >= in.t_min
         /\ t_cap < s.t_near
         /\ x * x + y * y <= in.shape.radius * in.shape.radius
      THEN Near(t_cap, TRUE)
      ELSE s

intersect_cylinder(in) ==
  LET o == in.origin
      d == in.direction
      half_depth == in.shape.depth \div 2
      a == d[1] * d[1] + d[2] * d[2]
      b == 2 * (o[1] * d[1] + o[2] * d[2])
      discriminant == CylinderDiscriminant(in)
      sqrt_d == Sqrt(discriminant)
      t1 == Quot(-b - sqrt_d, 2 * a)
      t2 == Quot(-b + sqrt_d, 2 * a)
      s0 == Near(in.t_max, FALSE)
      s1 == IF a # 0 /\ discriminant >= 0
            THEN check_cylinder_hit(in, check_cylinder_hit(in, s0, t1), t2)
            ELSE s0
      t_cap_top == Quot(half_depth - o[3], d[3])
      t_cap_bottom == Quot(-half_depth - o[3], d[3])
      s2 == IF d[3] # 0 THEN check_cap(in, s1, t_cap_top) ELSE s1
      s3 == IF d[3] # 0 THEN check_cap(in, s2, t_cap_bottom) ELSE s2
  IN  IF s3.hit_something THEN HitAt(in, s3.t_near) ELSE Miss

\* k2 = (radius / height)^2
ConeK2(shape) == (shape.radius * shape.radius) \div (shape.depth * shape.depth)

ConeDiscriminant(in) ==
  LET o == in.origin
      d == in.direction
      k2 == ConeK2(in.shape)
      z_term_origin == in.shape.depth \div 2 - o[3]
      a == d[1] * d[1] + d[2] * d[2] - k2 * d[3] * d[3]
      b == 2 * (o[1] * d[1] + o[2] * d[2] + k2 * z_term_origin * d[3])
      c == o[1] * o[1] + o[2] * o[2] - k2 * z_term_origin * z_term_origin
  IN  b * b - 4 * a * c

\* the early returns before the quadratic is set up
ConeCulled(in) ==
  LET o == in.origin
      d == in.direction
      half_depth == in.shape.depth \div 2
      a_cyl == d[1] * d[1] + d[2] * d[2]
      b_cyl == o[1] * d[1] + o[2] * d[2]
      c_cyl == o[1] * o[1] + o[2] * o[2] - in.shape.radius * in.shape.radius
      disc_cyl == b_cyl * b_cyl - a_cyl * c_cyl
      za == Quot(-half_depth - o[3], d[3])
      zb == Quot(half_depth - o[3], d[3])
      t_z_min == MinOf(za, zb)
      t_z_max == MaxOf(za, zb)
  IN  \/ c_cyl > 0 /\ b_cyl > 0 /\ a_cyl > 0
      \/ a_cyl > 0 /\ disc_cyl < 0
      \/ d[3] # 0 /\ (t_z_max < in.t_min \/ t_z_min > in.t_max)
      \/ d[3] = 0 /\ (o[3] < -half_depth \/ o[3] > half_depth)

intersect_cone(in) ==
  LET o == in.origin
      d == in.direction
      half_depth == in.shape.depth \div 2
      k2 == ConeK2(in.shape)
      z_term_origin == half_depth - o[3]
      a == d[1] * d[1] + d[2] * d[2] - k2 * d[3] * d[3]
      b == 2 * (o[1] * d[1] + o[2] * d[2] + k2 * z_term_origin * d[3])
      discriminant == ConeDiscriminant(in)
      sqrt_d == Sqrt(discriminant)
      ra == Quot(-b - sqrt_d, 2 * a)
      rb == Quot(-b + sqrt_d, 2 * a)
      t1 == MinOf(ra, rb)
      t2 == MaxOf(ra, rb)
      z1 == o[3] + t1 * d[3]
      z2 == o[3] + t2 * d[3]
      s0 == Near(in.t_max, FALSE)
      s1 == IF /\ a # 0 /\ discriminant >= 0
               /\ t1 >= in.t_min /\ t1 <= in.t_max
               /\ z1 >= -half_depth /\ z1 <= half_depth
            THEN Near(t1, TRUE)
            ELSE s0
      s2 == IF /\ a # 0 /\ discriminant >= 0
               /\ ~s1.hit_something
               /\ t2 >= in.t_min /\ t2 < s1.t_near
               /\ z2 >= -half_depth /\ z2 <= half_depth
            THEN Near(t2, TRUE)
            ELSE s1
      t_cap == Quot(-half_depth - o[3], d[3])
      s3 == IF d[3] # 0 THEN check_cap(in, s2, t_cap) ELSE s2
  IN  IF ConeCulled(in) THEN Miss
      ELSE IF s3.hit_something THEN HitAt(in, s3.t_near)
      ELSE Miss

\* inputs whose roots the integers represent exactly
ExactInput(in) ==
  LET disc == IF in.shape.kind = "sphere" THEN SphereDiscriminant(in)
              ELSE IF in.shape.kind = "cylinder" THEN CylinderDiscriminant(in)
              ELSE ConeDiscriminant(in)
  IN  disc >= 0 => IsSquare(disc) /\ (in.shape.kind # "sphere" => disc % 4 = 0)

SolveInputs ==
  { in \in { SolveInput(shape, <<x, y, z>>, direction, t_min, t_max) :
               shape \in SolveShapes,
               x \in -MaxCoord..MaxCoord, y \in -MaxCoord..MaxCoord,
               z \in -MaxCoord..MaxCoord,
               direction \in SolveDirections,
               t_min \in 0..1, t_max \in 1..MaxT } :
      ExactInput(in) }

SolveSphere ==
  /\ solve_in # <<>>
  /\ solve_out = <<>>
  /\ solve_in[1].shape.kind = "sphere"
  /\ solve_out' = <<intersect_sphere(solve_in[1])>>
  /\ UNCHANGED solve_in
  /\ UNCHANGED notSolveVars

SolveCylinder ==
  /\ solve_in # <<>>
  /\ solve_out = <<>>
  /\ solve_in[1].shape.kind = "cylinder"
  /\ solve_out' = <<intersect_cylinder(solve_in[1])>>
  /\ UNCHANGED solve_in
  /\ UNCHANGED notSolveVars

SolveCone ==
  /\ solve_in # <<>>
  /\ solve_out = <<>>
  /\ solve_in[1].shape.kind = "cone"
  /\ solve_out' = <<intersect_cone(solve_in[1])>>
  /\ UNCHANGED solve_in
  /\ UNCHANGED notSolveVars

SolveInit ==
  /\ \E in \in SolveInputs : solve_in = <<in>>
  /\ solve_out = <<>>
  /\ TraceIdle
  /\ GeomIdle
  /\ RenderIdle
  /\ TexIdle
  /\ BarIdle
  /\ ShadowIdle
  /\ SampleIdle

SolveNext ==
  \/ SolveSphere
  \/ SolveCylinder
  \/ SolveCone

SpecSolve == SolveInit /\ [][SolveNext]_vars

----------------------------------------------------------------------------
(* Properties of the solvers *)

\* the surface equation of the shape's body, evaluated at p
BodyEquation(shape, p) ==
  IF shape.kind = "sphere" THEN Dot(p, p) - 1
  ELSE IF shape.kind = "cylinder"
       THEN p[1] * p[1] + p[2] * p[2] - shape.radius * shape.radius
  ELSE p[1] * p[1] + p[2] * p[2]
       - ConeK2(shape) * (shape.depth \div 2 - p[3]) * (shape.depth \div 2 - p[3])

\* the coefficient of t^2 of the body equation along the ray
BodyLeading(shape, d) ==
  IF shape.kind = "sphere" THEN Dot(d, d)
  ELSE IF shape.kind = "cylinder" THEN d[1] * d[1] + d[2] * d[2]
  ELSE d[1] * d[1] + d[2] * d[2] - ConeK2(shape) * d[3] * d[3]

\* t is a root of the body's quadratic and the point lies on the finite body
BodyCandidate(in, t) ==
  LET p == RayAt(in, t)
  IN  /\ BodyLeading(in.shape, in.direction) # 0
      /\ BodyEquation(in.shape, p) = 0
      /\ in.shape.kind # "sphere" =>
           /\ p[3] >= -(in.shape.depth \div 2)
           /\ p[3] <= in.shape.depth \div 2

\* t is where the ray crosses the plane of a cap, inside the cap's disc
CapCandidate(in, t) ==
  LET p == RayAt(in, t)
      half_depth == in.shape.depth \div 2
  IN  /\ in.shape.kind # "sphere"
      /\ in.direction[3] # 0
      /\ \/ p[3] = -half_depth
         \/ in.shape.kind = "cylinder" /\ p[3] = half_depth
      /\ p[1] * p[1] + p[2] * p[2] <= in.shape.radius * in.shape.radius

\* the candidates with t_min <= t < t_max
CandidatesInRange(in) ==
  { t \in in.t_min..(in.t_max - 1) : BodyCandidate(in, t) \/ CapCandidate(in, t) }

\* C20: for sphere, cylinder and cone the reported hit is the candidate with
\* the smallest t in [t_min, t_max); a candidate outside that interval, t_max
\* itself included, is never reported.
C20_SmallestCandidateInHalfOpenRange ==
  solve_out # <<>> =>
    LET in == solve_in[1]
        out == solve_out[1]
        cands == CandidatesInRange(in)
    IN  /\ out.hit <=> cands # {}
        /\ out.hit => /\ out.t \in cands
                      /\ \A t \in cands : out.t <= t

----------------------------------------------------------------------------
(* Raytracer::compute_shadow.  Distances along the shadow ray are lattice  *)
(* units: the light is MaxDist away and an occluder sits at a position     *)
(* 1 .. MaxDist; shadow_epsilon is 0 or one unit.  Transparency and        *)
(* attenuation are percentages.  Each sample point has its own row of      *)
(* occluders, because the jittered light point differs per sample.         *)

MaxShadowSamples == 4
MaxDist == 3
MaxIters == 4

notShadowVars ==
  <<traceVars, geomVars, renderVars, texVars, barVars, solveVars, sampleVars>>

\* Ray(o, d, t = 0.5): the time of a ray built without a time argument
DefaultRayTime == 50

NoOccluder == -1

Transparencies == {0, 50, Pct}

\* what lies at each position between the point and the light
OccluderRows == [1..MaxDist -> {NoOccluder} \cup Transparencies]

\* static_cast<int>(std::sqrt(samples))
IntSqrt(n) == CHOOSE r \in 0..n : r * r <= n /\ (r + 1) * (r + 1) > n

\* samples: max(1, light.samples) for an area light, overridden by a
\* positive g_config.shadow_samples; 1 for every other light
ShadowSamples(light_type, light_samples, shadow_samples) ==
  IF light_type = "AREA"
  THEN IF shadow_samples > 0 THEN shadow_samples ELSE MaxOf(1, light_samples)
  ELSE 1

\* sqrt_samples, with the fallback for actual_samples == 0
SqrtSamples(samples) == IF IntSqrt(samples) = 0 THEN 1 ELSE IntSqrt(samples)

ActualSamplesRequested(samples) == samples

\* actual_samples = sqrt_samples * sqrt_samples, 1 in the fallback
ActualSamples(samples) == SqrtSamples(samples) * SqrtSamples(samples)

\* intersect_bvh(shadow_ray_step, ..., shadow_epsilon, closest_t): the
\* positions of the occluders the step ray can report
StepHits(occluders, current_t, t_min, t_max) ==
  { p \in DOMAIN occluders :
      /\ occluders[p] # NoOccluder
      /\ p - current_t >= t_min
      /\ p - current_t <= t_max }

Nearest(ps) == CHOOSE p \in ps : \A q \in ps : p <= q

\* the call compute_shadow(point, normal, light) made by shade for a hit
\* of a ray with the given time
ShadowEnter ==
  /\ shadow # <<>>
  /\ shadow.pc = "entry"
  /\ LET samples == ShadowSamples(shadow.light_type, shadow.light_samples,
                                  shadow.shadow_samples)
     IN shadow' = [shadow EXCEPT !.pc = "sample",
                                 !.sqrt_samples = SqrtSamples(samples),
                                 !.actual_samples = ActualSamples(samples),
                                 !.total_attenuation = 0,
                                 !.i = 0, !.j = 0]
  /\ UNCHANGED notShadowVars

\* the head of the two sample loops and lines 192-211
ShadowSample ==
  /\ shadow # <<>>
  /\ shadow.pc = "sample"
  /\ shadow.i < shadow.sqrt_samples
  /\ \E row \in OccluderRows :
       shadow' = [shadow EXCEPT !.pc = "loop",
                                !.occluders = row,
                                !.attenuation = Pct,
                                !.current_t = shadow.shadow_epsilon,
                                !.iters = 0]
  /\ UNCHANGED notShadowVars

\* one evaluation of while (current_t < dist) and of its body
ShadowStep ==
  /\ shadow # <<>>
  /\ shadow.pc = "loop"
  /\ LET dist == MaxDist
         current_t == shadow.current_t
         closest_t == dist - current_t
         hits == StepHits(shadow.occluders, current_t,
                          shadow.shadow_epsilon, closest_t)
         hit_t == Nearest(hits) - current_t
         transparency == shadow.occluders[Nearest(hits)]
         attenuation == (shadow.attenuation * transparency) \div Pct
         stepped == [shadow EXCEPT
                       !.ray_times = @ \cup {DefaultRayTime},
                       !.iters = MinOf(@ + 1, MaxIters)]
     IN  IF ~(current_t < dist)
         THEN shadow' = [shadow EXCEPT !.pc = "sum"]
         ELSE IF hits = {} \/ ~(hit_t < dist - current_t)
         THEN shadow' = [stepped EXCEPT !.pc = "sum"]
         ELSE IF transparency > 0
         THEN shadow' = [stepped EXCEPT
                           !.attenuation = attenuation,
                           !.current_t = current_t + hit_t
                                         + shadow.shadow_epsilon,
                           !.pc = IF attenuation < 1 THEN "sum" ELSE "loop"]
         ELSE shadow' = [stepped EXCEPT !.attenuation = 0, !.pc = "sum"]
  /\ UNCHANGED notShadowVars

\* total_attenuation += (1.0 - attenuation), then j++ and i++
ShadowSum ==
  /\ shadow # <<>>
  /\ shadow.pc = "sum"
  /\ shadow' =
       [shadow EXCEPT
          !.pc = "sample",
          !.total_attenuation = @ + (Pct - shadow.attenuation),
          !.evaluated = @ + 1,
          !.j = IF shadow.j + 1 < shadow.sqrt_samples THEN shadow.j + 1 ELSE 0,
          !.i = IF shadow.j + 1 < shadow.sqrt_samples THEN @ ELSE @ + 1]
  /\ UNCHANGED notShadowVars

\* return total_attenuation / actual_samples
ShadowReturn ==
  /\ shadow # <<>>
  /\ shadow.pc = "sample"
  /\ ~(shadow.i < shadow.sqrt_samples)
  /\ shadow' = [shadow EXCEPT
                  !.pc = "returned",
                  !.result = shadow.total_attenuation \div shadow.actual_samples]
  /\ UNCHANGED notShadowVars

ShadowInit ==
  /\ \E light_type \in {"POINT", "AREA"},
        light_samples \in -1..MaxShadowSamples,
        shadow_samples \in -1..MaxShadowSamples,
        shadow_epsilon \in 0..1,
        time \in {0, DefaultRayTime} :
       shadow = [light_type |-> light_type, light_samples |-> light_samples,
                 shadow_samples |-> shadow_samples,
                 shadow_epsilon |-> shadow_epsilon, time |-> time,
                 pc |-> "entry", sqrt_samples |-> 0, actual_samples |-> 0,
                 i |-> 0, j |-> 0,
                 occluders |-> [p \in 1..MaxDist |-> NoOccluder],
                 attenuation |-> Pct, current_t |-> 0, iters |-> 0,
                 total_attenuation |-> 0, evaluated |-> 0,
                 ray_times |-> {}, result |-> 0]
  /\ TraceIdle
  /\ GeomIdle
  /\ RenderIdle
  /\ TexIdle
  /\ BarIdle
  /\ SolveIdle
  /\ SampleIdle

ShadowNext ==
  \/ ShadowEnter
  \/ ShadowSample
  \/ ShadowStep
  \/ ShadowSum
  \/ ShadowReturn

SpecShadow == ShadowInit /\ [][ShadowNext]_vars

\* the calling thread keeps running
SpecShadowFair == SpecShadow /\ WF_vars(ShadowNext)

----------------------------------------------------------------------------
(* Properties of compute_shadow *)

\* C22: the shadow term returned by compute_shadow lies in [0, 1] for every
\* light type, every requested sample count (square, non-square, zero or
\* negative) and every occluder transparency in [0, 1]; it is the mean of
\* (1 - transmittance) over exactly the sample points evaluated.
C22_ShadowTermIsMean ==
  shadow # <<>> =>
    /\ shadow.attenuation >= 0 /\ shadow.attenuation <= Pct
    /\ shadow.pc = "returned" =>
         /\ shadow.result >= 0
         /\ shadow.result <= Pct
         /\ shadow.evaluated >= 1
         /\ shadow.evaluated = shadow.actual_samples
         /\ shadow.result = shadow.total_attenuation \div shadow.evaluated
         /\ shadow.total_attenuation <= Pct * shadow.evaluated

C22_Witness ==
  /\ shadow # <<>>
  /\ shadow.pc = "returned"
  /\ shadow.light_type = "AREA"
  /\ shadow.light_samples = 3
  /\ shadow.shadow_samples <= 0
  /\ shadow.evaluated = 1
  /\ shadow.result = Pct \div 2

C28_SecondaryRaysKeepTime ==
  shadow # <<>> => \A t \in shadow.ray_times : t = shadow.time

----------------------------------------------------------------------------
(* TextureManager::sample on an image that is in the cache: the clamp, the *)
(* V flip, the pixel coordinates and the four texels of the bilinear       *)
(* filter.  u, v and the pixel coordinates are fixed point with UVUnit     *)
(* steps per 1.0, so that 0.5 is UVHalf steps.                             *)

MaxTexSize == 3
UVHalf == 2

UVUnit == 2 * UVHalf

notSampleVars ==
  <<traceVars, geomVars, renderVars, texVars, barVars, solveVars, shadowVars>>

\* std::max(0.0, std::min(1.0, u))
ClampUV(u) == MaxOf(0, MinOf(UVUnit, u))

\* static_cast<int>(std::floor(x)) of a fixed-point x
Floor(x) == x \div UVUnit

\* the % of C++: the remainder has the sign of the dividend
CRem(a, b) == IF a >= 0 THEN a % b ELSE -((-a) % b)

\* (x_floor % w + w) % w
WrapIndex(x_floor, w) == CRem(CRem(x_floor, w) + w, w)

\* lines 102-106: clamp u and v, flip v
SampleClamp ==
  /\ sampling # <<>>
  /\ sampling[1].pc = "clamp"
  /\ sampling' = <<[sampling[1] EXCEPT
                      !.pc = "texels",
                      !.u = ClampUV(sampling[1].u_in),
                      !.v = UVUnit - ClampUV(sampling[1].v_in)]>>
  /\ UNCHANGED notSampleVars

\* lines 110-133: pixel position, weights and the four texels fetched
SampleTexels ==
  /\ sampling # <<>>
  /\ sampling[1].pc = "texels"
  /\ LET c == sampling[1]
         x == c.u * c.w - UVHalf
         y == c.v * c.h - UVHalf
         x_floor == Floor(x)
         y_floor == Floor(y)
         x0 == WrapIndex(x_floor, c.w)
         y0 == WrapIndex(y_floor, c.h)
     IN sampling' = <<[c EXCEPT
                         !.pc = "done",
                         !.u_ratio = x - UVUnit * x_floor,
                         !.v_ratio = y - UVUnit * y_floor,
                         !.x0 = x0, !.x1 = CRem(x0 + 1, c.w),
                         !.y0 = y0, !.y1 = CRem(y0 + 1, c.h)]>>
  /\ UNCHANGED notSampleVars

SampleInit ==
  /\ \E w \in 1..MaxTexSize, h \in 1..MaxTexSize,
        u \in -UVUnit..(2 * UVUnit), v \in -UVUnit..(2 * UVUnit) :
       sampling = <<[w |-> w, h |-> h, u_in |-> u, v_in |-> v, pc |-> "clamp",
                     u |-> 0, v |-> 0, u_ratio |-> 0, v_ratio |-> 0,
                     x0 |-> 0, x1 |-> 0, y0 |-> 0, y1 |-> 0]>>
  /\ TraceIdle
  /\ GeomIdle
  /\ RenderIdle
  /\ TexIdle
  /\ BarIdle
  /\ SolveIdle
  /\ ShadowIdle

SampleNext ==
  \/ SampleClamp
  \/ SampleTexels

SpecSample == SampleInit /\ [][SampleNext]_vars

----------------------------------------------------------------------------
(* Properties of TextureManager::sample *)

\* the index of the image nearest to i
ClampIndex(i, n) == MaxOf(0, MinOf(n - 1, i))

\* C30: sampling clamps and does not wrap: for any u and v the four texel
\* indices are inside the image and are the texels nearest the clamped
\* coordinate, so at an image edge no texel of the opposite edge is used.
C30_SampleClampsNoWrap ==
  \A c \in {sampling[i] : i \in 1..Len(sampling)} :
    c.pc = "done" =>
      LET px == Floor(ClampUV(c.u_in) * c.w - UVHalf)
          py == Floor((UVUnit - ClampUV(c.v_in)) * c.h - UVHalf)
      IN  /\ {c.x0, c.x1} \subseteq 0..(c.w - 1)
          /\ {c.y0, c.y1} \subseteq 0..(c.h - 1)
          /\ c.x0 = ClampIndex(px, c.w)
          /\ c.x1 = ClampIndex(px + 1, c.w)
          /\ c.y0 = ClampIndex(py, c.h)
          /\ c.y1 = ClampIndex(py + 1, c.h)

====
